---- MODULE Spec2Model ----
(***************************************************************************)
(* A model of SimpleVideoEditor.py: the AudioThread worker loop, the       *)
(* VideoEditorWindow handlers that run on the coordination (GUI) thread,   *)
(* and the export workers.                                                 *)
(*                                                                         *)
(* Objects are records whose fields carry the names of the Python          *)
(* attributes.  A handler of the window is one operator from the window    *)
(* record to the window record; the calls it makes on the AudioThread are  *)
(* queued in the field `calls' and delivered one at a time, in program     *)
(* order, interleaved with the steps of the worker loop: the window's own  *)
(* fields are invisible to the worker, so only the order of those calls    *)
(* against the worker's steps matters.                                     *)
(***************************************************************************)
EXTENDS Integers, Sequences, FiniteSets, TLC

VARIABLES
    win,        \* the VideoEditorWindow object (and its cv2.VideoCapture)
    worker,     \* the AudioThread object, None when none exists
    loading,    \* TRUE while a LoadVideoWorker is in flight
    pending,    \* history: the seek() calls made since the worker last took the mailbox
    consumed,   \* history: the seek() calls the worker's last take covered
    reopened,   \* history: frames the cursor was re-opened for since that take
    twin,       \* a second AudioThread, run beside `worker' to compare two runs
    writes,     \* what worker's stream.write calls received, in order
    twin_writes, \* the same for twin
    save_worker, \* the SaveWorker or SaveAudioWorker object, None when none exists
    proc,       \* the encoder process of that worker: the lines read from its
                \* stderr, with the time stamp each was formatted from, and its exit code
    emitted,    \* the progress and finished signals that worker emitted, in order
    queued,     \* the finished signals not yet delivered to the coordination thread
    probe,      \* detect_ffmpeg_hw_acceleration while it runs, None otherwise
    load_worker \* LoadVideoWorker.run while it runs, with the resources it opened

hist == <<pending, consumed, reopened>>
playerVars == <<win, worker, loading, hist>>
muteVars == <<twin, writes, twin_writes>>
exportVars == <<save_worker, proc, emitted, queued>>
vars == <<playerVars, muteVars, exportVars, probe, load_worker>>

\* Python's None is the empty tuple; a value x that may be None is held as <<x>>.
None == <<>>
Some(x) == <<x>>
val(o) == o[1]

(***************************************************************************)
(* Bounds of the model.                                                    *)
(***************************************************************************)
MaxFrames == 2
MaxPending == 2
SamplesPerFrame == 1470

frames_per_buffer == 2048

Max(a, b) == IF a >= b THEN a ELSE b
\* a min that keeps its first argument
Min_first(a, b) == a
Min(a, b) == IF a <= b THEN a ELSE b

(***************************************************************************)
(* Python's float is the IEEE-754 double.  A double is the record          *)
(* [sign, m, e] of value (-1)^sign * m * 2^e, with m = 0 or                *)
(* 2^52 <= m < 2^53.  A significand is a natural number beyond the range   *)
(* of the model checker's integers, held as its digits in base 2^15, the   *)
(* least significant first and with no leading zero digit (0 is <<>>).     *)
(* Every operation computes the exact result and rounds it to nearest,     *)
(* ties to even; the values of this program stay far from the ends of the  *)
(* exponent range, so there is neither overflow nor a subnormal.           *)
(***************************************************************************)
DigitBits == 15
Digit == 2^DigitBits
Precision == 53

RECURSIVE big(_)
big(n) == IF n = 0 THEN <<>> ELSE <<n % Digit>> \o big(n \div Digit)

\* the number of a digit sequence below 2^31
RECURSIVE small(_)
small(a) == IF a = <<>> THEN 0 ELSE a[1] + Digit * small(Tail(a))

RECURSIVE trim(_)
trim(a) == IF a /= <<>> /\ a[Len(a)] = 0 THEN trim(SubSeq(a, 1, Len(a) - 1)) ELSE a

digit(a, i) == IF i <= Len(a) THEN a[i] ELSE 0

RECURSIVE add_from(_, _, _, _)
add_from(a, b, i, carry) ==
    IF i > Len(a) /\ i > Len(b)
    THEN big(carry)
    ELSE LET t == digit(a, i) + digit(b, i) + carry
         IN  <<t % Digit>> \o add_from(a, b, i + 1, t \div Digit)

big_add(a, b) == add_from(a, b, 1, 0)

\* a - b for a >= b
RECURSIVE sub_from(_, _, _, _)
sub_from(a, b, i, borrow) ==
    IF i > Len(a)
    THEN <<>>
    ELSE LET t == digit(a, i) - digit(b, i) - borrow
         IN  <<IF t < 0 THEN t + Digit ELSE t>>
                 \o sub_from(a, b, i + 1, IF t < 0 THEN 1 ELSE 0)

big_sub(a, b) == trim(sub_from(a, b, 1, 0))

RECURSIVE cmp_from(_, _, _)
cmp_from(a, b, i) ==
    IF i = 0 THEN 0
    ELSE IF a[i] /= b[i] THEN (IF a[i] < b[i] THEN -1 ELSE 1)
    ELSE cmp_from(a, b, i - 1)

\* -1, 0 or 1 as a < b, a = b or a > b
big_cmp(a, b) ==
    IF Len(a) /= Len(b) THEN (IF Len(a) < Len(b) THEN -1 ELSE 1)
    ELSE cmp_from(a, b, Len(a))

\* a * k for 0 <= k <= Digit
RECURSIVE mul_from(_, _, _, _)
mul_from(a, k, i, carry) ==
    IF i > Len(a)
    THEN big(carry)
    ELSE LET t == a[i] * k + carry
         IN  <<t % Digit>> \o mul_from(a, k, i + 1, t \div Digit)

big_mul(a, k) == IF k = 0 THEN <<>> ELSE mul_from(a, k, 1, 0)

RECURSIVE big_times(_, _)
big_times(a, b) ==
    IF a = <<>> \/ b = <<>> THEN <<>>
    ELSE big_add(big_mul(a, b[1]), trim(<<0>> \o big_times(a, Tail(b))))

\* a * 2^k and a \div 2^k
shl(a, k) ==
    IF a = <<>> THEN <<>>
    ELSE [i \in 1..(k \div DigitBits) |-> 0] \o big_mul(a, 2^(k % DigitBits))

shr(a, k) ==
    LET q == k \div DigitBits
        r == k % DigitBits
        b == IF q >= Len(a) THEN <<>> ELSE SubSeq(a, q + 1, Len(a))
    IN  trim([i \in 1..Len(b) |->
                 (b[i] \div 2^r) + (digit(b, i + 1) % 2^r) * 2^(DigitBits - r)])

RECURSIVE width(_)
width(n) == IF n = 0 THEN 0 ELSE 1 + width(n \div 2)

bitlen(a) == IF a = <<>> THEN 0 ELSE DigitBits * (Len(a) - 1) + width(a[Len(a)])
bit(a, i) == (digit(a, i \div DigitBits + 1) \div 2^(i % DigitBits)) % 2

\* the double nearest to (-1)^sign * (m + s) * 2^e, where 0 < s < 1 when
\* sticky and s = 0 otherwise (sticky comes with m of more than 54 bits)
round(sign, m, e, sticky) ==
    LET n == bitlen(m)
        k == n - Precision
        q == shr(m, k)
        up == /\ bit(m, k - 1) = 1
              /\ \/ sticky
                 \/ shl(shr(m, k - 1), k - 1) /= m
                 \/ bit(q, 0) = 1
        q1 == IF up THEN big_add(q, <<1>>) ELSE q
    IN  IF m = <<>> THEN [sign |-> 0, m |-> <<>>, e |-> 0]
        ELSE IF k <= 0 THEN [sign |-> sign, m |-> shl(m, -k), e |-> e + k]
        ELSE IF bitlen(q1) > Precision
             THEN [sign |-> sign, m |-> shr(q1, 1), e |-> e + k + 1]
             ELSE [sign |-> sign, m |-> q1, e |-> e + k]

\* float(n) of an int n
float(n) == round(IF n < 0 THEN 1 ELSE 0, big(IF n < 0 THEN -n ELSE n), 0, FALSE)

\* The division by d, digit by digit of StepBits bits.  quotient_digit is the
\* largest c + x with x < 2^b and (c + x) * d <= r; long_div carries the
\* division that has quotient q and remainder r so far on by n more digits.
StepBits == 14
QuotientDigits == 4

RECURSIVE quotient_digit(_, _, _, _)
quotient_digit(r, d, c, b) ==
    IF b = 0 THEN c
    ELSE IF big_cmp(big_mul(d, c + 2^(b - 1)), r) <= 0
         THEN quotient_digit(r, d, c + 2^(b - 1), b - 1)
         ELSE quotient_digit(r, d, c, b - 1)

RECURSIVE long_div(_, _, _, _)
long_div(r, d, q, n) ==
    IF n = 0 THEN [q |-> q, r |-> r]
    ELSE LET r2 == shl(r, StepBits)
             c == quotient_digit(r2, d, 0, StepBits)
         IN  long_div(big_sub(r2, big_mul(d, c)), d, big_add(shl(q, StepBits), big(c)), n - 1)

\* a / b for b /= 0
truediv(a, b) ==
    LET ge == big_cmp(a.m, b.m) >= 0
        d == long_div(IF ge THEN big_sub(a.m, b.m) ELSE a.m, b.m,
                      IF ge THEN <<1>> ELSE <<>>, QuotientDigits)
    IN  IF a.m = <<>> THEN [a EXCEPT !.sign = (a.sign + b.sign) % 2]
        ELSE round((a.sign + b.sign) % 2, d.q, a.e - b.e - StepBits * QuotientDigits, d.r /= <<>>)

\* a + b and a - b
float_add(a, b) ==
    LET e == IF a.e <= b.e THEN a.e ELSE b.e
        x == shl(a.m, a.e - e)
        y == shl(b.m, b.e - e)
        c == big_cmp(x, y)
    IN  IF a.m = <<>> /\ b.m = <<>> THEN [a EXCEPT !.sign = a.sign * b.sign]
        ELSE IF a.m = <<>> THEN b
        ELSE IF b.m = <<>> THEN a
        ELSE IF a.sign = b.sign THEN round(a.sign, big_add(x, y), e, FALSE)
        ELSE IF c >= 0 THEN round(a.sign, big_sub(x, y), e, FALSE)
        ELSE round(b.sign, big_sub(y, x), e, FALSE)

float_sub(a, b) == float_add(a, [b EXCEPT !.sign = 1 - @])

\* a * b
float_mul(a, b) == round((a.sign + b.sign) % 2, big_times(a.m, b.m), a.e + b.e, FALSE)

\* min(cap, int(a)) for a >= 0: int() drops the fraction
min_int(cap, a) ==
    LET t == IF a.e >= 0 THEN shl(a.m, a.e) ELSE shr(a.m, -a.e)
    IN  IF big_cmp(t, big(cap)) >= 0 THEN cap ELSE small(t)

\* int(a): the fraction is dropped, towards zero
int(a) ==
    LET t == IF a.e >= 0 THEN shl(a.m, a.e) ELSE shr(a.m, -a.e)
    IN  IF a.sign = 1 THEN -small(t) ELSE small(t)

\* a > 0
positive(a) == a.sign = 0 /\ a.m /= <<>>

(***************************************************************************)
(* AudioThread                                                             *)
(***************************************************************************)

\* AudioThread.__init__: paused, not stopped, not muted, empty mailbox, no cursor;
\* the device is open once the constructor has returned.  pc is "unstarted"
\* until start() has succeeded.  h_late is history: the device writes made
\* after stop().
AudioThread(audio_clip) ==
    [ pc                 |-> "while",
      audio_clip         |-> audio_clip,
      seek_request_frame |-> None,
      seek_frame         |-> None,
      chunk_generator    |-> None,
      is_paused          |-> TRUE,
      stop_event         |-> FALSE,
      is_muted           |-> FALSE,
      stream             |-> "open",
      h_late             |-> 0 ]

\* a seek() that keeps a pending older request
seek_keeps_pending(w, frame) ==
    IF w.seek_request_frame = None
    THEN [w EXCEPT !.seek_request_frame = Some(frame)]
    ELSE w

seek(w, frame) == [w EXCEPT !.seek_request_frame = Some(frame)]
set_mute(w, muted) == [w EXCEPT !.is_muted = muted]
pause(w) == [w EXCEPT !.is_paused = TRUE]
resume(w) == [w EXCEPT !.is_paused = FALSE]
stop(w) == [w EXCEPT !.stop_event = TRUE]

\* subclip(t_start): a negative start counts from the end of the clip
subclip_start(audio_clip, seek_frame) ==
    IF seek_frame < 0
    THEN audio_clip + seek_frame * SamplesPerFrame
    ELSE seek_frame * SamplesPerFrame

\* audio_clip.subclip(seek_time).iter_chunks(chunksize): the clip is audio_clip
\* samples long, seek_time = seek_frame / video_fps is SamplesPerFrame samples per
\* frame.  iter_chunks cuts the rest in totalsize \div chunksize + 1 chunks at
\* the positions linspace(0, totalsize, nchunks + 1).
iter_chunks(audio_clip, seek_frame) ==
    LET totalsize == audio_clip - subclip_start(audio_clip, seek_frame)
    IN  [ origin    |-> seek_frame,
          totalsize |-> totalsize,
          nchunks   |-> (totalsize \div frames_per_buffer) + 1,
          i         |-> 0 ]

\* subclip raises when the start lies after the end of the clip.
subclip_raises(audio_clip, seek_frame) ==
    \/ subclip_start(audio_clip, seek_frame) > audio_clip
    \/ subclip_start(audio_clip, seek_frame) < 0

pospos(g, i) == (i * g.totalsize) \div g.nchunks

\* the size of the chunk next(chunk_generator) returns
chunk_len(g) == pospos(g, g.i + 1) - pospos(g, g.i)

\* a loop that never looks at the stop flag
run_while_ignores_stop(w) == [w EXCEPT !.pc = "lock"]

\* while not self.stop_event.is_set():
run_while(w) ==
    IF w.stop_event THEN [w EXCEPT !.pc = "close"] ELSE [w EXCEPT !.pc = "lock"]

\* with self.lock: seek_frame = self.seek_request_frame; self.seek_request_frame = None
run_lock(w) ==
    [w EXCEPT !.seek_frame = w.seek_request_frame,
              !.seek_request_frame = None,
              !.pc = "seek"]

\* if seek_frame is not None: try: re-open the cursor; except: cursor = None.
\* `err' is an error of the audio reader.  seek_frame is dead after this step.
run_seek(w, err) ==
    IF w.seek_frame = None
    THEN [w EXCEPT !.pc = "idle"]
    ELSE [w EXCEPT !.chunk_generator =
                        IF err \/ subclip_raises(w.audio_clip, val(w.seek_frame))
                        THEN None
                        ELSE Some(iter_chunks(w.audio_clip, val(w.seek_frame))),
                   !.seek_frame = None,
                   !.pc = "idle"]

\* if self.is_paused.is_set() or self.chunk_generator is None: sleep; continue
run_idle(w) ==
    IF w.is_paused \/ w.chunk_generator = None
    THEN [w EXCEPT !.pc = "while"]
    ELSE [w EXCEPT !.pc = "next"]

\* StopIteration: the generator has yielded its nchunks chunks
exhausted(w) == val(w.chunk_generator).i >= val(w.chunk_generator).nchunks

\* muting by writing nothing
samples_dropped_when_muted(w) ==
    [len |-> IF w.is_muted THEN 0 ELSE chunk_len(val(w.chunk_generator)),
     silent |-> w.is_muted]

\* what self.stream.write receives: the chunk's length, and whether it is silence
samples(w) == [len |-> chunk_len(val(w.chunk_generator)), silent |-> w.is_muted]

\* the writes the step at "next" makes on the device
written(w, err) ==
    IF exhausted(w) \/ err THEN <<>> ELSE <<samples(w)>>

\* an exhausted cursor that is kept, and does not pause the thread
run_next_keeps_cursor(w, err) ==
    IF exhausted(w)
    THEN [w EXCEPT !.pc = "while"]
    ELSE IF err
         THEN [w EXCEPT !.chunk_generator[1].i = @ + 1, !.is_paused = TRUE, !.pc = "while"]
         ELSE [w EXCEPT !.chunk_generator[1].i = @ + 1, !.pc = "while",
                        !.h_late = IF w.stop_event THEN @ + 1 ELSE @]

\* try: chunk = next(...); samples = ...; self.stream.write(...)
\* except StopIteration: pause, drop the cursor; except Exception: pause.
run_next(w, err) ==
    IF exhausted(w)
    THEN [w EXCEPT !.is_paused = TRUE, !.chunk_generator = None, !.pc = "while"]
    ELSE IF err
         THEN [w EXCEPT !.chunk_generator[1].i = @ + 1, !.is_paused = TRUE, !.pc = "while"]
         ELSE [w EXCEPT !.chunk_generator[1].i = @ + 1, !.pc = "while",
                        !.h_late = IF w.stop_event THEN @ + 1 ELSE @]

\* self.stream.stop_stream(); self.stream.close(); self.p.terminate()
run_close(w) == [w EXCEPT !.stream = "closed", !.pc = "done"]

(***************************************************************************)
(* VideoEditorWindow.  The cv2.VideoCapture is the field cap_pos (its       *)
(* CAP_PROP_POS_FRAMES, the index of the frame the next read decodes) and   *)
(* total_frames.  The fields h_* are history of the handler that ran last:  *)
(* its name, the branch it took, the frames it displayed and the argument   *)
(* its signal carried; h_raised says that an exception left a slot, which   *)
(* ends the program (PyQt5 aborts on an unhandled exception in a slot).    *)
(* `shape' is the width and height of the frames the   *)
(* capture decodes.  The fields of self.video_display are pixmap (the size  *)
(* of pixmap_item's pixmap, None for the null pixmap), crop_rect_item (its  *)
(* rect), is_cropping and crop_area; a QRectF is [x, y, width, height].     *)
(***************************************************************************)

\* VideoEditorWindow.__init__, after update_ui_state(is_video_loaded=False)
VideoEditorWindow ==
    [ video_path     |-> None,
      video_capture  |-> None,
      original_clip  |-> None,
      audio_thread   |-> None,
      is_playing     |-> FALSE,
      is_muted       |-> FALSE,
      has_audio      |-> FALSE,
      start_frame    |-> 0,
      end_frame      |-> -1,
      total_frames   |-> 0,
      fps            |-> Some(30),
      original_width |-> 0,
      original_height |-> 0,
      ffmpeg_hw_name |-> "CPU",
      ffmpeg_codec   |-> "libx264",
      shape          |-> None,
      pixmap         |-> None,
      crop_rect_item |-> None,
      is_cropping    |-> FALSE,
      crop_area      |-> None,
      cap_pos        |-> 0,
      timer_active   |-> FALSE,
      slider_max     |-> 0,
      ui             |-> [loaded |-> FALSE, processing |-> FALSE, audio |-> FALSE],
      calls          |-> <<>>,
      h_op           |-> "init",
      h_branch       |-> "",
      h_shown        |-> <<>>,
      h_arg          |-> None,
      h_raised       |-> FALSE ]

\* a handler starts: the history of the previous one is dropped
begin(s, op) ==
    [s EXCEPT !.h_op = op, !.h_branch = "", !.h_shown = <<>>, !.h_arg = None]

branch(s, b) == [s EXCEPT !.h_branch = b]

\* a call on self.audio_thread (or on self.original_clip: "close"), made where
\* the handler stands
call(s, op, arg) ==
    [s EXCEPT !.calls = Append(@, [op |-> op, arg |-> arg])]

\* buttons that are never disabled for a job in flight
update_ui_state_never_busy(s, is_video_loaded, is_processing) ==
    [s EXCEPT !.ui = [loaded |-> is_video_loaded, processing |-> FALSE,
                      audio |-> s.has_audio]]

\* update_ui_state: which buttons are enabled
update_ui_state(s, is_video_loaded, is_processing) ==
    [s EXCEPT !.ui = [loaded |-> is_video_loaded, processing |-> is_processing,
                      audio |-> s.has_audio]]

\* a positioning the capture ignores
cap_set_ignored(s, frame_number) == s

\* video_capture.set(cv2.CAP_PROP_POS_FRAMES, frame_number): the capture seeks
\* inside its frames
cap_set(s, frame_number) ==
    [s EXCEPT !.cap_pos = Max(0, Min(frame_number, s.total_frames))]

\* whether video_capture.read() returns a frame; `ok' is FALSE for a decode error
cap_ret(s, ok) == ok /\ s.cap_pos >= 0 /\ s.cap_pos < s.total_frames

\* ret, frame = video_capture.read(); if ret: self.display_frame(frame)
read_and_display(s, ok) ==
    IF cap_ret(s, ok)
    THEN [s EXCEPT !.cap_pos = @ + 1, !.h_shown = Append(@, s.cap_pos),
                   !.pixmap = s.shape]
    ELSE s

\* a pause that leaves the timer running
toggle_to_paused_timer_left(s) ==
    LET s1 == [s EXCEPT !.is_playing = FALSE]
    IN  IF s1.audio_thread /= None THEN call(s1, "pause", 0) ELSE s1

\* the is_playing branch of toggle_play_pause
toggle_to_paused(s) ==
    LET s1 == [s EXCEPT !.is_playing = FALSE, !.timer_active = FALSE]
    IN  IF s1.audio_thread /= None THEN call(s1, "pause", 0) ELSE s1

\* set_position reached with is_playing false (toggle_play_pause's rewind, or
\* after its own pause)
set_position_paused(s, frame_number, ok) ==
    LET s1 == cap_set(s, frame_number)
        s2 == IF s1.audio_thread /= None THEN call(s1, "seek", frame_number) ELSE s1
    IN  read_and_display(s2, ok)

toggle_play_pause(s, ok) ==
    IF s.is_playing
    THEN toggle_to_paused(s)
    ELSE LET current_frame == s.cap_pos
             rewind == current_frame >= s.end_frame
             s1 == IF rewind THEN set_position_paused(s, s.start_frame, ok) ELSE s
             frame == IF rewind THEN s.start_frame ELSE current_frame
             s2 == [s1 EXCEPT !.is_playing = TRUE, !.timer_active = TRUE]
         IN  IF s2.audio_thread /= None
             THEN call(call(s2, "seek", frame), "resume", 0)
             ELSE s2

set_position(s, frame_number, ok) ==
    IF s.video_capture = None
    THEN s
    ELSE set_position_paused(IF s.is_playing THEN toggle_play_pause(s, ok) ELSE s,
                             frame_number, ok)

\* a tick that never tests the end of the trim window and goes on after a
\* failed read
next_frame_never_ends(s, ok) ==
    IF ~s.is_playing
    THEN branch(s, "not_playing")
    ELSE read_and_display(branch(s, "published"), ok)

next_frame(s, ok) ==
    IF ~s.is_playing
    THEN branch(s, "not_playing")
    ELSE IF s.cap_pos > s.end_frame
         THEN set_position(toggle_play_pause(branch(s, "past_end"), ok), s.end_frame, ok)
         ELSE IF cap_ret(s, ok)
              THEN read_and_display(branch(s, "published"), ok)
              ELSE toggle_play_pause(branch(s, "read_failed"), ok)

toggle_mute(s) ==
    IF ~s.has_audio
    THEN s
    ELSE LET s1 == [s EXCEPT !.is_muted = ~s.is_muted]
         IN  IF s1.audio_thread /= None
             THEN call(s1, "set_mute", IF s1.is_muted THEN 1 ELSE 0)
             ELSE s1

\* `value' is self.timeline_slider.value()
set_start_point(s, value) ==
    IF s.video_capture = None
    THEN s
    ELSE LET s1 == [s EXCEPT !.start_frame = value]
         IN  IF s1.start_frame >= s1.end_frame
             THEN [s1 EXCEPT !.end_frame = s1.total_frames - 1]
             ELSE s1

set_end_point(s, value) ==
    IF s.video_capture = None
    THEN s
    ELSE LET s1 == [s EXCEPT !.end_frame = value]
         IN  IF s1.end_frame <= s1.start_frame
             THEN [s1 EXCEPT !.start_frame = 0]
             ELSE s1

\* VideoDisplayWidget.reset_crop
reset_crop(s) == [s EXCEPT !.crop_rect_item = None, !.crop_area = None]

\* an exception leaves the slot
raise(s, e) == [s EXCEPT !.h_branch = e, !.h_raised = TRUE]

\* a cleanup that closes the clip before it stops the audio thread
cleanup_resources_closes_first(s) ==
    LET s1 == IF s.is_playing THEN toggle_play_pause(s, TRUE) ELSE s
        s2 == [s1 EXCEPT !.timer_active = FALSE]
        closed(t) == IF t.original_clip /= None THEN call(t, "close", 0) ELSE t
        joined(t) == IF t.audio_thread /= None
                     THEN call(call(t, "stop", 0), "join", 0)
                     ELSE t
        freed(t) ==
            IF t.audio_thread = Some("unstarted")
            THEN raise(call(closed(t), "stop", 0), "RuntimeError")
            ELSE [reset_crop(joined(closed(t)))
                     EXCEPT !.video_capture = None, !.original_clip = None,
                            !.audio_thread = None, !.has_audio = FALSE,
                            !.cap_pos = 0, !.shape = None]
    IN  freed(s2)

\* join() of a thread that was never started raises RuntimeError, after the
\* capture was released and stop() was called.  original_clip.close() is a
\* call in `calls' too: it is made once join() has returned.
cleanup_resources(s) ==
    LET s1 == IF s.is_playing THEN toggle_play_pause(s, TRUE) ELSE s
        s2 == [s1 EXCEPT !.timer_active = FALSE]
        joined(t) == IF t.audio_thread /= None
                     THEN call(call(t, "stop", 0), "join", 0)
                     ELSE t
        closed(t) == IF t.original_clip /= None THEN call(t, "close", 0) ELSE t
        freed(t) ==
            IF t.audio_thread = Some("unstarted")
            THEN raise(call(t, "stop", 0), "RuntimeError")
            ELSE [reset_crop(closed(joined(t)))
                     EXCEPT !.video_capture = None, !.original_clip = None,
                            !.audio_thread = None, !.has_audio = FALSE,
                            !.cap_pos = 0, !.shape = None]
    IN  freed(s2)

unload_video(s) ==
    LET s1 == cleanup_resources(s)
        s2 == [s1 EXCEPT !.video_path = None, !.pixmap = None,
                         !.start_frame = 0, !.end_frame = -1,
                         !.total_frames = 0, !.slider_max = 0]
    IN  IF s1.h_raised THEN s1 ELSE update_ui_state(s2, FALSE, FALSE)

load_video(s) ==
    IF s.video_path = None THEN s ELSE update_ui_state(s, FALSE, TRUE)

open_file(s, file_path) ==
    LET s1 == unload_video(s)
    IN  IF s1.h_raised
        THEN s1
        ELSE load_video([s1 EXCEPT !.video_path = Some(file_path)])

\* results: what LoadVideoWorker.run emitted; results.error is results.get('error'),
\* results.video_capture is None when the dict has no such key.  audio_init says
\* how far the audio thread got: "init_raised" when AudioThread(...) raises,
\* "start_raised" when its start() raises, after self.audio_thread was assigned.
on_video_load_complete(s, results, audio_init, ok) ==
    IF results.error /= None /\ val(results.error) /= <<>>
    THEN unload_video(branch(s, "error"))
    ELSE IF results.video_capture = None
    THEN raise(s, "KeyError")
    ELSE LET s1 == [s EXCEPT !.video_capture = results.video_capture,
                             !.original_clip = Some("clip"),
                             !.cap_pos = 0,
                             !.shape = Some(results.shape),
                             !.fps = Some(results.fps),
                             !.total_frames = results.total_frames,
                             !.original_width = results.original_width,
                             !.original_height = results.original_height,
                             !.has_audio = results.has_audio,
                             !.slider_max = IF results.total_frames > 0
                                            THEN results.total_frames - 1 ELSE 0,
                             !.start_frame = 0,
                             !.end_frame = results.total_frames - 1]
             s2 == IF s1.has_audio
                   THEN CASE audio_init = "started" ->
                               [s1 EXCEPT !.audio_thread = Some("thread")]
                          [] audio_init = "init_raised" ->
                               [s1 EXCEPT !.has_audio = FALSE]
                          [] audio_init = "start_raised" ->
                               [s1 EXCEPT !.audio_thread = Some("unstarted"),
                                          !.has_audio = FALSE]
                   ELSE s1
             s3 == [s2 EXCEPT !.is_muted = ~s2.has_audio]
         IN  update_ui_state(reset_crop(set_position(branch(s3, "loaded"), 0, ok)),
                             TRUE, FALSE)

(***************************************************************************)
(* The program: the handlers of the coordination thread, the delivery of   *)
(* their calls to the AudioThread, and the steps of AudioThread.run.       *)
(***************************************************************************)

\* what LoadVideoWorker.run can emit: a container of 0..MaxFrames frames with
\* or without an audio track, or the str(e) of an exception raised while the
\* file was opened (the dict then holds 'error' alone); str(e) is empty for an
\* exception without arguments
LoadResults ==
    [error : {Some(<<>>), Some(<<"e">>)}, video_capture : {None},
     total_frames : {0}, fps : {30}, has_audio : {FALSE},
     original_width : {0}, original_height : {0},
     shape : {[width |-> 0, height |-> 0]}]
    \cup [error : {None}, video_capture : {Some("cap")},
          total_frames : 0..MaxFrames, fps : {30}, has_audio : BOOLEAN,
          original_width : {8}, original_height : {6},
          shape : {[width |-> 8, height |-> 6]}]

\* how the construction and the start of the AudioThread can end
AudioInits == {"started", "init_raised", "start_raised"}

\* the audio track is as long as the video, and never empty
audio_samples(results) == Max(results.total_frames, 1) * SamplesPerFrame

\* history of the mailbox: how many seek() calls wrote it, and the last value
NoWrites == [n |-> 0, last |-> None]

Init ==
    /\ win = VideoEditorWindow
    /\ worker = None
    /\ loading = FALSE
    /\ pending = NoWrites
    /\ consumed = NoWrites
    /\ reopened = <<>>
    /\ twin = None
    /\ writes = <<>>
    /\ twin_writes = <<>>
    /\ save_worker = None
    /\ proc = None
    /\ emitted = <<>>
    /\ queued = <<>>
    /\ probe = None
    /\ load_worker = None

\* the variables the player leaves alone
aside == <<muteVars, exportVars, probe, load_worker>>

\* the event loop is free to run the next slot
idle == win.calls = <<>> /\ ~win.h_raised
enabled_loaded == idle /\ win.ui.loaded /\ ~win.ui.processing
enabled_audio == idle /\ win.ui.audio /\ ~win.ui.processing

OpenFile ==
    /\ idle /\ ~win.ui.processing
    /\ win' = open_file(begin(win, "open_file"), <<"i", "n">>)
    /\ loading' = TRUE
    /\ UNCHANGED <<worker, hist, aside>>

LoadComplete ==
    /\ idle /\ loading
    /\ \E results \in LoadResults, audio_init \in AudioInits, ok \in BOOLEAN :
         /\ win' = on_video_load_complete(
                       [begin(win, "on_video_load_complete")
                            EXCEPT !.h_arg = Some(results.error)],
                       results, audio_init, ok)
         /\ worker' = CASE win'.audio_thread = Some("thread") ->
                             Some(AudioThread(audio_samples(results)))
                        [] win'.audio_thread = Some("unstarted") ->
                             Some([AudioThread(audio_samples(results))
                                       EXCEPT !.pc = "unstarted"])
                        [] OTHER -> worker
    /\ loading' = FALSE
    /\ pending' = NoWrites
    /\ consumed' = NoWrites
    /\ reopened' = <<>>
    /\ UNCHANGED aside

UnloadVideo ==
    /\ enabled_loaded
    /\ win' = unload_video(begin(win, "unload_video"))
    /\ UNCHANGED <<worker, loading, hist, aside>>

TogglePlayPause ==
    /\ enabled_loaded
    /\ \E ok \in BOOLEAN : win' = toggle_play_pause(begin(win, "toggle_play_pause"), ok)
    /\ UNCHANGED <<worker, loading, hist, aside>>

ToggleMute ==
    /\ enabled_audio
    /\ win' = toggle_mute(begin(win, "toggle_mute"))
    /\ UNCHANGED <<worker, loading, hist, aside>>

\* the playback timer's timeout
NextFrame ==
    /\ idle /\ win.timer_active
    /\ \E ok \in BOOLEAN : win' = next_frame(begin(win, "next_frame"), ok)
    /\ UNCHANGED <<worker, loading, hist, aside>>

\* the user drags or clicks the timeline: sliderMoved(value) -> set_position
SliderMoved ==
    /\ enabled_loaded
    /\ \E v \in 0..win.slider_max, ok \in BOOLEAN :
         win' = set_position([begin(win, "set_position") EXCEPT !.h_arg = Some(v)],
                             v, ok)
    /\ UNCHANGED <<worker, loading, hist, aside>>

SetStartPoint ==
    /\ enabled_loaded
    /\ \E value \in 0..win.slider_max :
         win' = set_start_point(begin(win, "set_start_point"), value)
    /\ UNCHANGED <<worker, loading, hist, aside>>

SetEndPoint ==
    /\ enabled_loaded
    /\ \E value \in 0..win.slider_max :
         win' = set_end_point(begin(win, "set_end_point"), value)
    /\ UNCHANGED <<worker, loading, hist, aside>>

\* the coordination thread makes the next call of the running handler
apply_call(w, c) ==
    CASE c.op = "seek"     -> seek(w, c.arg)
      [] c.op = "pause"    -> pause(w)
      [] c.op = "resume"   -> resume(w)
      [] c.op = "set_mute" -> set_mute(w, c.arg = 1)
      [] c.op = "stop"     -> stop(w)

AudioCall ==
    /\ win.calls /= <<>>
    /\ worker /= None
    /\ LET c == Head(win.calls) IN
         /\ c.op \notin {"join", "close"}
         /\ c.op = "seek" /\ val(worker).pc /= "unstarted" => pending.n < MaxPending
         /\ worker' = Some(apply_call(val(worker), c))
         /\ pending' = IF c.op = "seek"
                        THEN [n |-> Min(pending.n + 1, MaxPending), last |-> Some(c.arg)]
                        ELSE pending
    /\ win' = [win EXCEPT !.calls = Tail(@)]
    /\ UNCHANGED <<loading, consumed, reopened, aside>>

\* audio_thread.join() returns once run has ended; the thread object is dropped
AudioJoin ==
    /\ win.calls /= <<>>
    /\ Head(win.calls).op = "join"
    /\ worker /= None
    /\ val(worker).pc = "done"
    /\ win' = [win EXCEPT !.calls = Tail(@)]
    /\ worker' = None
    /\ pending' = NoWrites
    /\ consumed' = NoWrites
    /\ reopened' = <<>>
    /\ UNCHANGED <<loading, aside>>

\* original_clip.close(): the readers of the clip, the audio reader the
\* AudioThread pulls from included, are closed
ClipClose ==
    /\ win.calls /= <<>>
    /\ Head(win.calls).op = "close"
    /\ win' = [win EXCEPT !.calls = Tail(@)]
    /\ UNCHANGED <<worker, loading, hist, aside>>

at(l) == worker /= None /\ val(worker).pc = l

RunWhile ==
    /\ at("while")
    /\ worker' = Some(run_while(val(worker)))
    /\ consumed' = NoWrites
    /\ reopened' = <<>>
    /\ UNCHANGED <<win, loading, pending, aside>>

RunLock ==
    /\ at("lock")
    /\ worker' = Some(run_lock(val(worker)))
    /\ consumed' = pending
    /\ pending' = NoWrites
    /\ reopened' = <<>>
    /\ UNCHANGED <<win, loading, aside>>

RunSeek ==
    /\ at("seek")
    /\ \E err \in BOOLEAN : worker' = Some(run_seek(val(worker), err))
    /\ reopened' = IF val(worker).seek_frame /= None
                   THEN Append(reopened, val(val(worker).seek_frame))
                   ELSE reopened
    /\ UNCHANGED <<win, loading, pending, consumed, aside>>

RunIdle ==
    /\ at("idle")
    /\ worker' = Some(run_idle(val(worker)))
    /\ UNCHANGED <<win, loading, hist, aside>>

RunNext ==
    /\ at("next")
    /\ \E err \in BOOLEAN : worker' = Some(run_next(val(worker), err))
    /\ UNCHANGED <<win, loading, hist, aside>>

RunClose ==
    /\ at("close")
    /\ worker' = Some(run_close(val(worker)))
    /\ UNCHANGED <<win, loading, hist, aside>>

Next ==
    \/ OpenFile \/ LoadComplete \/ UnloadVideo
    \/ TogglePlayPause \/ ToggleMute \/ NextFrame \/ SliderMoved
    \/ SetStartPoint \/ SetEndPoint
    \/ AudioCall \/ AudioJoin \/ ClipClose
    \/ RunWhile \/ RunLock \/ RunSeek \/ RunIdle \/ RunNext \/ RunClose

Spec == Init /\ [][Next]_vars

(***************************************************************************)
(* One session with an audio track, from the completion of its load to its *)
(* unload, under fair scheduling: the thread of AudioThread.run keeps      *)
(* taking steps (its sleep, its lock and its device write return), and the *)
(* coordination thread goes on with the calls of the slot it is running.   *)
(***************************************************************************)

\* the window and the thread as on_video_load_complete leaves them for a file
\* of MaxFrames frames with an audio track
InitStop ==
    /\ \E results \in LoadResults, ok \in BOOLEAN :
         /\ results.error = None /\ results.has_audio
         /\ results.total_frames = MaxFrames
         /\ win = on_video_load_complete(
                      [begin(open_file(VideoEditorWindow, <<"i", "n">>),
                             "on_video_load_complete")
                           EXCEPT !.h_arg = Some(results.error)],
                      results, "started", ok)
         /\ worker = Some(AudioThread(audio_samples(results)))
    /\ loading = FALSE
    /\ pending = NoWrites
    /\ consumed = NoWrites
    /\ reopened = <<>>
    /\ twin = None
    /\ writes = <<>>
    /\ twin_writes = <<>>
    /\ save_worker = None
    /\ proc = None
    /\ emitted = <<>>
    /\ queued = <<>>
    /\ probe = None
    /\ load_worker = None

\* a step of AudioThread.run
Run == RunWhile \/ RunLock \/ RunSeek \/ RunIdle \/ RunNext \/ RunClose

NextStop ==
    \/ TogglePlayPause \/ NextFrame \/ UnloadVideo
    \/ AudioCall \/ AudioJoin \/ ClipClose
    \/ RunWhile \/ RunLock \/ RunSeek \/ RunIdle \/ RunNext \/ RunClose

SpecStop ==
    /\ InitStop /\ [][NextStop]_vars
    /\ WF_vars(Run) /\ WF_vars(AudioCall) /\ WF_vars(AudioJoin) /\ WF_vars(ClipClose)

(***************************************************************************)
(* Two runs of the AudioThread under the same commands and the same        *)
(* schedule, which differ in the set_mute calls they receive.              *)
(***************************************************************************)
MaxWrites == 2

\* one step of AudioThread.run from where w stands
step(w, err) ==
    CASE w.pc = "while" -> run_while(w)
      [] w.pc = "lock"  -> run_lock(w)
      [] w.pc = "seek"  -> run_seek(w, err)
      [] w.pc = "idle"  -> run_idle(w)
      [] w.pc = "next"  -> run_next(w, err)
      [] w.pc = "close" -> run_close(w)

\* the device writes of that step
step_writes(w, err) == IF w.pc = "next" THEN written(w, err) ELSE <<>>

InitMute ==
    /\ win = VideoEditorWindow
    /\ loading = FALSE
    /\ pending = NoWrites
    /\ consumed = NoWrites
    /\ reopened = <<>>
    /\ worker = Some(AudioThread(MaxFrames * SamplesPerFrame))
    /\ twin = Some(AudioThread(MaxFrames * SamplesPerFrame))
    /\ writes = <<>>
    /\ twin_writes = <<>>
    /\ save_worker = None
    /\ proc = None
    /\ emitted = <<>>
    /\ queued = <<>>
    /\ probe = None
    /\ load_worker = None

\* seek(frame), pause(), resume() and stop() reach both runs alike
BothSeek ==
    /\ \E frame \in 0..MaxFrames :
         /\ worker' = Some(seek(val(worker), frame))
         /\ twin' = Some(seek(val(twin), frame))
    /\ UNCHANGED <<probe, load_worker, exportVars, win, loading, hist, writes, twin_writes>>

BothPause ==
    /\ worker' = Some(pause(val(worker)))
    /\ twin' = Some(pause(val(twin)))
    /\ UNCHANGED <<probe, load_worker, exportVars, win, loading, hist, writes, twin_writes>>

BothResume ==
    /\ worker' = Some(resume(val(worker)))
    /\ twin' = Some(resume(val(twin)))
    /\ UNCHANGED <<probe, load_worker, exportVars, win, loading, hist, writes, twin_writes>>

BothStop ==
    /\ worker' = Some(stop(val(worker)))
    /\ twin' = Some(stop(val(twin)))
    /\ UNCHANGED <<probe, load_worker, exportVars, win, loading, hist, writes, twin_writes>>

\* set_mute reaches one run only
WorkerSetMute ==
    /\ \E muted \in BOOLEAN : worker' = Some(set_mute(val(worker), muted))
    /\ UNCHANGED <<probe, load_worker, exportVars, win, loading, hist, twin, writes, twin_writes>>

TwinSetMute ==
    /\ \E muted \in BOOLEAN : twin' = Some(set_mute(val(twin), muted))
    /\ UNCHANGED <<probe, load_worker, exportVars, win, loading, hist, worker, writes, twin_writes>>

\* the same schedule: both threads take their next step, with the same outcome
\* of the reader and of the device
BothStep ==
    /\ val(worker).pc /= "done" /\ val(twin).pc /= "done"
    /\ Len(writes) < MaxWrites /\ Len(twin_writes) < MaxWrites
    /\ \E err \in BOOLEAN :
         /\ worker' = Some(step(val(worker), err))
         /\ twin' = Some(step(val(twin), err))
         /\ writes' = writes \o step_writes(val(worker), err)
         /\ twin_writes' = twin_writes \o step_writes(val(twin), err)
    /\ UNCHANGED <<probe, load_worker, exportVars, win, loading, hist>>

NextMute ==
    \/ BothSeek \/ BothPause \/ BothResume \/ BothStop
    \/ WorkerSetMute \/ TwinSetMute \/ BothStep

SpecMute == InitMute /\ [][NextMute]_vars

(***************************************************************************)
(* The export workers.  SaveWorker.run and SaveAudioWorker.run differ in   *)
(* the command they build and are the same from the try on.  A str is the  *)
(* tuple of its characters.                                                *)
(***************************************************************************)
MaxLines == 2

DigitChars == <<"0", "1", "2", "3", "4", "5", "6", "7", "8", "9">>
Digits == {DigitChars[i] : i \in 1..Len(DigitChars)}

\* str(n) of an int n
RECURSIVE str_nat(_)
str_nat(n) == IF n < 10 THEN <<DigitChars[n + 1]>>
              ELSE str_nat(n \div 10) \o <<DigitChars[(n % 10) + 1]>>

str_int(n) == IF n < 0 THEN <<"-">> \o str_nat(-n) ELSE str_nat(n)

\* int(s) of a str of decimal digits
RECURSIVE int_str(_)
int_str(s) ==
    IF s = <<>> THEN 0
    ELSE 10 * int_str(SubSeq(s, 1, Len(s) - 1))
         + (CHOOSE d \in 0..9 : DigitChars[d + 1] = s[Len(s)])

\* "".join(lines)
RECURSIVE join(_)
join(lines) == IF lines = <<>> THEN <<>> ELSE Head(lines) \o join(Tail(lines))

\* re.compile(r"time=(\d{2}):(\d{2}):(\d{2})\.(\d{2})"): the set of characters
\* each position accepts, and where the four groups start
time_regex ==
    <<{"t"}, {"i"}, {"m"}, {"e"}, {"="}, Digits, Digits, {":"}, Digits, Digits,
      {":"}, Digits, Digits, {"."}, Digits, Digits>>

time_groups == <<6, 9, 12, 15>>

matches_at(line, i) ==
    /\ i + Len(time_regex) - 1 <= Len(line)
    /\ \A j \in 1..Len(time_regex) : line[i + j - 1] \in time_regex[j]

\* time_regex.search(line): None, or the groups of the leftmost match
search(line) ==
    IF \E i \in 1..Len(line) : matches_at(line, i)
    THEN LET i == CHOOSE i \in 1..Len(line) :
                      /\ matches_at(line, i)
                      /\ \A k \in 1..(i - 1) : ~matches_at(line, k)
         IN  Some([g \in 1..4 |-> SubSeq(line, i + time_groups[g] - 1, i + time_groups[g])])
    ELSE None

\* hours * 3600 + minutes * 60 + seconds + hundredths / 100
current_seconds(match) ==
    LET hours == int_str(val(match)[1])
        minutes == int_str(val(match)[2])
        seconds == int_str(val(match)[3])
        hundredths == int_str(val(match)[4])
    IN  float_add(float(hours * 3600 + minutes * 60 + seconds),
                  truediv(float(hundredths), float(100)))

\* min(100, int((current_seconds / self.duration) * 100))
percent(w, match) ==
    min_int(100, float_mul(truediv(current_seconds(match), w.duration), float(100)))

\* SaveWorker.__init__ and SaveAudioWorker.__init__, and where run stands.
\* h_raised is history: an exception was raised inside the try.
SaveWorker(video_path, save_path, start_time, end_time, crop_details, is_muted, video_codec) ==
    [ class         |-> "SaveWorker",
      video_path    |-> video_path,
      save_path     |-> save_path,
      start_time    |-> start_time,
      end_time      |-> end_time,
      crop_details  |-> crop_details,
      is_muted      |-> is_muted,
      video_codec   |-> video_codec,
      duration      |-> float_sub(end_time, start_time),
      pc            |-> "run",
      error_message |-> <<>>,
      stderr_lines  |-> <<>>,
      h_raised      |-> FALSE ]

SaveAudioWorker(video_path, save_path, start_time, end_time) ==
    [ class         |-> "SaveAudioWorker",
      video_path    |-> video_path,
      save_path     |-> save_path,
      start_time    |-> start_time,
      end_time      |-> end_time,
      duration      |-> float_sub(end_time, start_time),
      pc            |-> "run",
      error_message |-> <<>>,
      stderr_lines  |-> <<>>,
      h_raised      |-> FALSE ]

\* str(x) of a float x is the shortest decimal that reads back as x: it is
\* one symbol, x itself
str_float(x) == <<x>>

\* the name of an encoder, as a str
codec_str(codec) ==
    CASE codec = "h264_nvenc" -> <<"h", "2", "6", "4", "_", "n", "v", "e", "n", "c">>
      [] codec = "h264_amf"   -> <<"h", "2", "6", "4", "_", "a", "m", "f">>
      [] codec = "h264_qsv"   -> <<"h", "2", "6", "4", "_", "q", "s", "v">>
      [] codec = "libx264"    -> <<"l", "i", "b", "x", "2", "6", "4">>

\* the command run builds, after ffmpeg_path
cmd(w) ==
    LET head == << <<"-", "y">>, <<"-", "s", "s">>, str_float(w.start_time),
                   <<"-", "t", "o">>, str_float(w.end_time), <<"-", "i">>, w.video_path >>
        video_filters ==
            IF w.crop_details /= None
            THEN LET c == val(w.crop_details)
                 IN  << <<"c", "r", "o", "p", "=">> \o str_int(c.width) \o <<":">>
                          \o str_int(c.height) \o <<":">> \o str_int(c.x1)
                          \o <<":">> \o str_int(c.y1) >>
            ELSE <<>>
    IN  IF w.class = "SaveWorker"
        THEN head
             \o (IF video_filters /= <<>>
                 THEN << <<"-", "v", "f">>, join(video_filters) >> ELSE <<>>)
             \o << <<"-", "c", ":", "v">>, codec_str(w.video_codec) >>
             \o (IF w.is_muted THEN << <<"-", "a", "n">> >>
                 ELSE << <<"-", "c", ":", "a">>, <<"a", "a", "c">> >>)
             \o << w.save_path >>
        ELSE head \o << <<"-", "v", "n">>, <<"-", "c", ":", "a">>,
                        <<"l", "i", "b", "m", "p", "3", "l", "a", "m", "e">>,
                        w.save_path >>

\* except Exception as e: error_message = str(e)
run_except(w, str_e) ==
    [w EXCEPT !.error_message = str_e, !.h_raised = TRUE, !.pc = "finally"]

\* error_message = ""; the command; proc = subprocess.Popen(...); stderr_lines = []
run_popen(w, raised) ==
    IF raised /= None
    THEN run_except(w, val(raised))
    ELSE [w EXCEPT !.stderr_lines = <<>>, !.pc = "for"]

\* the progress signals of one turn of `for line in proc.stderr', for the line
\* that is number n
line_progress(w, line, n) ==
    LET match == search(line)
    IN  IF match /= None /\ positive(w.duration)
        THEN <<[signal |-> "progress", percent |-> percent(w, match), line |-> n]>>
        ELSE <<>>

\* a loop that keeps the last line only
run_line_keeps_last(w, line) == [w EXCEPT !.stderr_lines = <<line>>]

\* one turn of the loop: stderr_lines.append(line), and the progress above
run_line(w, line) == [w EXCEPT !.stderr_lines = Append(@, line)]

\* f"FFmpeg Error (code {return_code}):\n{''.join(stderr_lines)}"
ffmpeg_error(return_code, stderr_lines) ==
    <<"F", "F", "m", "p", "e", "g", " ", "E", "r", "r", "o", "r", " ",
      "(", "c", "o", "d", "e", " ">> \o str_int(return_code)
        \o <<")", ":", "\n">> \o join(stderr_lines)

\* the stream ends; return_code = proc.wait(); the if on return_code
run_wait(w, return_code) ==
    IF return_code /= 0
    THEN [w EXCEPT !.error_message = ffmpeg_error(return_code, w.stderr_lines),
                   !.pc = "finally"]
    ELSE [w EXCEPT !.pc = "finally"]

\* an exit that emits no progress
wait_progress_none(w, return_code) == <<>>

\* else: self.progress.emit(100)
wait_progress(w, return_code) ==
    IF return_code /= 0
    THEN <<>>
    ELSE <<[signal |-> "progress", percent |-> 100, line |-> 0]>>

\* the emit at the end of the try block instead of in finally
finished_unless_raised(w) ==
    IF w.h_raised
    THEN <<>>
    ELSE <<[signal |-> "finished", error_message |-> w.error_message,
            save_path |-> w.save_path]>>

\* finally: self.finished.emit(error_message, self.save_path)
finished(w) ==
    <<[signal |-> "finished", error_message |-> w.error_message, save_path |-> w.save_path]>>

run_finally(w) == [w EXCEPT !.pc = "done"]

\* the times of the whole clip
trim_times_of_clip(s) ==
    [ start_time |-> float(0),
      end_time   |-> truediv(float(s.total_frames - 1), float(val(s.fps))) ]

\* start_time, end_time = self.start_frame / self.fps, self.end_frame / self.fps
trim_times(s) ==
    [ start_time |-> truediv(float(s.start_frame), float(val(s.fps))),
      end_time   |-> truediv(float(s.end_frame), float(val(s.fps))) ]

\* the crop rectangle save_video hands to the SaveWorker: crop_area, in scene
\* coordinates, mapped to the pixels of the source.  The pixmap item sits at
\* the origin of the scene.
crop_details(s) ==
    LET pixmap_rect == IF s.pixmap = None
                       THEN [x |-> 0, y |-> 0, width |-> 0, height |-> 0]
                       ELSE [x |-> 0, y |-> 0, width |-> val(s.pixmap).width,
                             height |-> val(s.pixmap).height]
        crop_rect_scene == val(s.crop_area)
        orig_w == s.original_width
        orig_h == s.original_height
        scale_x == truediv(float(orig_w), float(pixmap_rect.width))
        scale_y == truediv(float(orig_h), float(pixmap_rect.height))
        x1 == float_mul(float_sub(float(crop_rect_scene.x), float(pixmap_rect.x)), scale_x)
        y1 == float_mul(float_sub(float(crop_rect_scene.y), float(pixmap_rect.y)), scale_y)
        w == float_mul(float(crop_rect_scene.width), scale_x)
        h == float_mul(float(crop_rect_scene.height), scale_y)
        x1_int == Max(0, int(x1))
        y1_int == Max(0, int(y1))
        w_int == Min(int(w) - (int(w) % 2), orig_w - x1_int)
        h_int == Min(int(h) - (int(h) % 2), orig_h - y1_int)
    IN  IF s.crop_area = None THEN None
        ELSE IF ~(pixmap_rect.width > 0 /\ pixmap_rect.height > 0) THEN None
        ELSE IF w_int > 0 /\ h_int > 0
             THEN Some([x1 |-> x1_int, y1 |-> y1_int, width |-> w_int, height |-> h_int])
             ELSE None

\* save_video, save_audio_only: `save_path' is what the file dialog returned,
\* None when the user cancelled it
save_video(s, save_path) ==
    IF s.video_path = None
    THEN s
    ELSE LET s1 == IF s.is_playing THEN toggle_play_pause(s, TRUE) ELSE s
         IN  IF save_path = None THEN s1 ELSE update_ui_state(s1, TRUE, TRUE)

save_audio_only(s, save_path) ==
    IF s.video_path = None \/ ~s.has_audio
    THEN s
    ELSE LET s1 == IF s.is_playing THEN toggle_play_pause(s, TRUE) ELSE s
         IN  IF save_path = None THEN s1 ELSE update_ui_state(s1, TRUE, TRUE)

\* on_video_save_complete, on_audio_save_complete: the branch is "error" for
\* show_error_message and "success" for show_success_message
on_video_save_complete(s, error_message, save_path) ==
    IF error_message /= <<>>
    THEN update_ui_state(branch(s, "error"), TRUE, FALSE)
    ELSE LET s1 == unload_video(branch(s, "success"))
         IN  IF s1.h_raised
             THEN s1
             ELSE load_video([s1 EXCEPT !.video_path = Some(save_path)])

\* a completion that leaves the buttons as the trigger set them
on_audio_save_complete_stays_busy(s, error_message, save_path) ==
    branch(s, IF error_message /= <<>> THEN "error" ELSE "success")

on_audio_save_complete(s, error_message, save_path) ==
    branch(update_ui_state(s, TRUE, FALSE),
           IF error_message /= <<>> THEN "error" ELSE "success")

\* What the encoder writes on stderr: statistics lines that carry the time
\* stamp <<HH, MM, SS, hh>>, and lines that carry none.
two(n) == <<DigitChars[(n \div 10) + 1], DigitChars[(n % 10) + 1]>>

stats_line(t) ==
    <<"q", "=", "2", " ", "t", "i", "m", "e", "=">> \o two(t[1]) \o <<":">> \o two(t[2])
        \o <<":">> \o two(t[3]) \o <<".">> \o two(t[4]) \o <<" ", "\n">>

Stamps == {<<0, 0, 0, 0>>, <<0, 0, 0, 29>>, <<0, 0, 5, 0>>, <<0, 1, 0, 0>>}

Lines ==
    {[text |-> stats_line(t), stamp |-> Some(t)] : t \in Stamps}
    \cup {[text |-> <<"t", "i", "m", "e", "=", "N", "/", "A", " ", "\n">>, stamp |-> None],
          [text |-> <<"q", "=", "2", " ", "\n">>, stamp |-> None]}

\* str(e) of the exceptions Popen and the read of stderr raise: an OSError
\* with its message, and an exception without arguments, such as MemoryError()
Raised == {<<"[", "E", "r", "r", "n", "o", " ", "2", "]">>, <<>>}

ReturnCodes == {0, 1}

\* The sessions exports start from: a container of total_frames frames at 30
\* frames per second, with or without an audio track, of the width and height
\* the capture reports and the shape of the frames it decodes, loaded, and
\* its trim window's end set or left where the load put it; and the encoder
\* the probe found when the window was made.
Sessions ==
    {[total_frames |-> 301, set_end |-> Some(30), has_audio |-> TRUE,
      original |-> <<1920, 1080>>, shape |-> <<1920, 1080>>, codec |-> "libx264"],
     [total_frames |-> 301, set_end |-> None, has_audio |-> TRUE,
      original |-> <<1920, 1080>>, shape |-> <<960, 540>>, codec |-> "h264_nvenc"],
     [total_frames |-> 300, set_end |-> None, has_audio |-> FALSE,
      original |-> <<1280, 720>>, shape |-> <<854, 480>>, codec |-> "libx264"],
     [total_frames |-> 1, set_end |-> None, has_audio |-> TRUE,
      original |-> <<1920, 1080>>, shape |-> <<1920, 1080>>, codec |-> "h264_qsv"],
     [total_frames |-> 0, set_end |-> None, has_audio |-> TRUE,
      original |-> <<1920, 1080>>, shape |-> <<1920, 1080>>, codec |-> "h264_amf"]}

session_results(session) ==
    [error |-> None, video_capture |-> Some("cap"),
     total_frames |-> session.total_frames, fps |-> 30,
     has_audio |-> session.has_audio,
     original_width |-> session.original[1], original_height |-> session.original[2],
     shape |-> [width |-> session.shape[1], height |-> session.shape[2]]]

\* the window once the load has completed, the end point is set and the calls
\* on the audio thread are made
session_window(session) ==
    LET s0 == [VideoEditorWindow EXCEPT !.ffmpeg_codec = session.codec]
        s1 == open_file(begin(s0, "open_file"), <<"i", "n">>)
        s2 == on_video_load_complete(begin(s1, "on_video_load_complete"),
                                     session_results(session), "started", TRUE)
        s3 == IF session.set_end /= None
              THEN set_end_point(begin(s2, "set_end_point"), val(session.set_end))
              ELSE s2
    IN  [s3 EXCEPT !.calls = <<>>]

InitExport ==
    /\ \E session \in Sessions :
         /\ win = session_window(session)
         /\ worker = IF session.has_audio
                      THEN Some(seek(AudioThread(audio_samples(session_results(session))), 0))
                      ELSE None
         /\ pending = IF session.has_audio THEN [n |-> 1, last |-> Some(0)] ELSE NoWrites
    /\ loading = FALSE
    /\ consumed = NoWrites
    /\ reopened = <<>>
    /\ twin = None
    /\ writes = <<>>
    /\ twin_writes = <<>>
    /\ save_worker = None
    /\ proc = None
    /\ emitted = <<>>
    /\ queued = <<>>
    /\ probe = None
    /\ load_worker = None

SavePaths == {None, Some(<<"o", "u", "t">>)}

SaveVideo ==
    /\ enabled_loaded
    /\ \E save_path \in SavePaths :
         /\ win' = save_video(begin(win, "save_video"), save_path)
         /\ IF save_path = None
            THEN UNCHANGED exportVars
            ELSE /\ save_worker' =
                      LET times == trim_times(win)
                      IN  Some(SaveWorker(val(win.video_path), val(save_path),
                                          times.start_time, times.end_time,
                                          crop_details(win'), win'.is_muted,
                                          win'.ffmpeg_codec))
                 /\ proc' = None
                 /\ emitted' = <<>>
                 /\ queued' = <<>>
    /\ UNCHANGED <<worker, loading, hist, muteVars, probe, load_worker>>

SaveAudioOnly ==
    /\ enabled_audio
    /\ \E save_path \in SavePaths :
         /\ win' = save_audio_only(begin(win, "save_audio_only"), save_path)
         /\ IF save_path = None
            THEN UNCHANGED exportVars
            ELSE /\ save_worker' =
                      LET times == trim_times(win)
                      IN  Some(SaveAudioWorker(val(win.video_path), val(save_path),
                                               times.start_time, times.end_time))
                 /\ proc' = None
                 /\ emitted' = <<>>
                 /\ queued' = <<>>
    /\ UNCHANGED <<worker, loading, hist, muteVars, probe, load_worker>>

\* Where the mouse is pressed, moved to and released, in scene coordinates:
\* inside and outside the pixmap.
Points == {<<-10, -10>>, <<101, 51>>, <<300, 250>>, <<2301, 1200>>}

\* the Crop button: start_cropping_and_pause, VideoDisplayWidget.start_cropping
StartCropping ==
    /\ enabled_loaded
    /\ win' = LET s == begin(win, "start_cropping_and_pause")
                  s1 == IF s.is_playing THEN toggle_play_pause(s, TRUE) ELSE s
              IN  reset_crop([s1 EXCEPT !.is_cropping = TRUE])
    /\ UNCHANGED <<worker, loading, hist, aside>>

\* VideoDisplayWidget.mousePressEvent: a rectangle of no extent at the point
MousePress ==
    /\ win.is_cropping
    /\ \E pos \in Points :
         win' = [win EXCEPT !.crop_rect_item =
                     Some([x |-> pos[1], y |-> pos[2], width |-> 0, height |-> 0])]
    /\ UNCHANGED <<worker, loading, hist, aside>>

\* VideoDisplayWidget.mouseMoveEvent: QRectF(topLeft, pos).normalized()
MouseMove ==
    /\ win.is_cropping /\ win.crop_rect_item /= None
    /\ \E pos \in Points :
         LET topLeft == val(win.crop_rect_item)
             w == pos[1] - topLeft.x
             h == pos[2] - topLeft.y
         IN  win' = [win EXCEPT !.crop_rect_item =
                         Some([x |-> IF w < 0 THEN topLeft.x + w ELSE topLeft.x,
                               y |-> IF h < 0 THEN topLeft.y + h ELSE topLeft.y,
                               width |-> IF w < 0 THEN -w ELSE w,
                               height |-> IF h < 0 THEN -h ELSE h])]
    /\ UNCHANGED <<worker, loading, hist, aside>>

\* VideoDisplayWidget.mouseReleaseEvent
MouseRelease ==
    /\ win.is_cropping /\ win.crop_rect_item /= None
    /\ win' = [win EXCEPT !.crop_area = win.crop_rect_item, !.is_cropping = FALSE]
    /\ UNCHANGED <<worker, loading, hist, aside>>

saving(l) == save_worker /= None /\ val(save_worker).pc = l

Popen ==
    /\ saving("run")
    /\ \E raised \in {None} \cup {Some(str_e) : str_e \in Raised} :
         /\ save_worker' = Some(run_popen(val(save_worker), raised))
         /\ proc' = IF raised = None THEN [stderr |-> <<>>, returncode |-> None] ELSE None
    /\ UNCHANGED <<playerVars, muteVars, probe, load_worker, emitted, queued>>

ReadLine ==
    /\ saving("for")
    /\ Len(proc.stderr) < MaxLines
    /\ \E line \in Lines :
         /\ save_worker' = Some(run_line(val(save_worker), line.text))
         /\ emitted' = emitted \o line_progress(val(save_worker), line.text,
                                                Len(proc.stderr) + 1)
         /\ proc' = [proc EXCEPT !.stderr = Append(@, line)]
    /\ UNCHANGED <<playerVars, muteVars, probe, load_worker, queued>>

ReadRaises ==
    /\ saving("for")
    /\ \E str_e \in Raised : save_worker' = Some(run_except(val(save_worker), str_e))
    /\ UNCHANGED <<playerVars, muteVars, probe, load_worker, proc, emitted, queued>>

Wait ==
    /\ saving("for")
    /\ \E return_code \in ReturnCodes :
         /\ save_worker' = Some(run_wait(val(save_worker), return_code))
         /\ emitted' = emitted \o wait_progress(val(save_worker), return_code)
         /\ proc' = [proc EXCEPT !.returncode = Some(return_code)]
    /\ UNCHANGED <<playerVars, muteVars, probe, load_worker, queued>>

Finally ==
    /\ saving("finally")
    /\ save_worker' = Some(run_finally(val(save_worker)))
    /\ emitted' = emitted \o finished(val(save_worker))
    /\ queued' = queued \o finished(val(save_worker))
    /\ UNCHANGED <<playerVars, muteVars, probe, load_worker, proc>>

\* the finished signal reaches the slots connected to it: the handler of the
\* window, and deleteLater of the worker, whose history goes with it
VideoSaveComplete ==
    /\ idle /\ queued /= <<>>
    /\ val(save_worker).class = "SaveWorker"
    /\ win' = on_video_save_complete(begin(win, "on_video_save_complete"),
                                     Head(queued).error_message, Head(queued).save_path)
    /\ loading' = (win'.h_branch = "success")
    /\ queued' = Tail(queued)
    /\ save_worker' = None
    /\ proc' = None
    /\ emitted' = <<>>
    /\ UNCHANGED <<worker, hist, muteVars, probe, load_worker>>

AudioSaveComplete ==
    /\ idle /\ queued /= <<>>
    /\ val(save_worker).class = "SaveAudioWorker"
    /\ win' = on_audio_save_complete(begin(win, "on_audio_save_complete"),
                                     Head(queued).error_message, Head(queued).save_path)
    /\ queued' = Tail(queued)
    /\ save_worker' = None
    /\ proc' = None
    /\ emitted' = <<>>
    /\ UNCHANGED <<worker, loading, hist, muteVars, probe, load_worker>>

NextExport ==
    \/ StartCropping \/ MousePress \/ MouseMove \/ MouseRelease
    \/ SaveVideo \/ SaveAudioOnly
    \/ Popen \/ ReadLine \/ ReadRaises \/ Wait \/ Finally
    \/ VideoSaveComplete \/ AudioSaveComplete

SpecExport == InitExport /\ [][NextExport]_vars

(***************************************************************************)
(* detect_ffmpeg_hw_acceleration, which VideoEditorWindow.__init__ runs    *)
(* through detect_and_display_ffmpeg.  `probe' holds where the function    *)
(* stands, the index i of the candidate the loop is at, the capability     *)
(* queries made so far with what came of each, and the value returned.     *)
(***************************************************************************)
hw_accels ==
    << <<"NVIDIA CUDA", "h264_nvenc">>, <<"AMD AMF", "h264_amf">>,
       <<"Intel QSV", "h264_qsv">> >>

\* What comes of one capability query: Popen or communicate raises, or the
\* process ends with a return code and with or without b"Unknown encoder" in
\* its stderr.
Queries ==
    {[raised |-> TRUE, returncode |-> 0, unknown |-> FALSE]}
    \cup [raised : {FALSE}, returncode : {0, 1}, unknown : BOOLEAN]

\* a test of the return code alone
qualifies_by_returncode(q) == ~q.raised /\ q.returncode = 0

\* if proc.returncode == 0 and b"Unknown encoder" not in stderr
qualifies(q) == ~q.raised /\ q.returncode = 0 /\ ~q.unknown

InitProbe ==
    /\ win = VideoEditorWindow
    /\ probe = Some([pc |-> "exe", i |-> 1, queried |-> <<>>, result |-> None])
    /\ load_worker = None
    /\ worker = None
    /\ loading = FALSE
    /\ pending = NoWrites
    /\ consumed = NoWrites
    /\ reopened = <<>>
    /\ twin = None
    /\ writes = <<>>
    /\ twin_writes = <<>>
    /\ save_worker = None
    /\ proc = None
    /\ emitted = <<>>
    /\ queued = <<>>

probing(l) == probe /= None /\ val(probe).pc = l

\* ffmpeg_path = get_ffmpeg_exe(): the path, or RuntimeError when no binary is
\* found; the call stands outside the try
ProbeExe ==
    /\ probing("exe")
    /\ \E found \in BOOLEAN :
         probe' = Some([val(probe) EXCEPT !.pc = IF found THEN "loop" ELSE "raised"])
    /\ UNCHANGED <<playerVars, muteVars, exportVars, load_worker>>

\* one turn of the loop over hw_accels.items()
ProbeQuery ==
    /\ probing("loop")
    /\ val(probe).i <= Len(hw_accels)
    /\ \E q \in Queries :
         LET candidate == hw_accels[val(probe).i]
             asked == [val(probe) EXCEPT
                          !.queried = Append(@, [codec |-> candidate[2], q |-> q])]
         IN  probe' = IF qualifies(q)
                      THEN Some([asked EXCEPT !.pc = "returned",
                                              !.result = Some(candidate)])
                      ELSE Some([asked EXCEPT !.i = @ + 1])
    /\ UNCHANGED <<playerVars, muteVars, exportVars, load_worker>>

\* the loop is over: return "CPU", "libx264"
ProbeFallback ==
    /\ probing("loop")
    /\ val(probe).i > Len(hw_accels)
    /\ probe' = Some([val(probe) EXCEPT !.pc = "returned",
                                        !.result = Some(<<"CPU", "libx264">>)])
    /\ UNCHANGED <<playerVars, muteVars, exportVars, load_worker>>

\* detect_and_display_ffmpeg takes the value returned
DetectAndDisplay ==
    /\ probing("returned")
    /\ win' = [win EXCEPT !.ffmpeg_hw_name = val(val(probe).result)[1],
                          !.ffmpeg_codec = val(val(probe).result)[2]]
    /\ probe' = Some([val(probe) EXCEPT !.pc = "done"])
    /\ UNCHANGED <<worker, loading, hist, muteVars, exportVars, load_worker>>

NextProbe == ProbeExe \/ ProbeQuery \/ ProbeFallback \/ DetectAndDisplay

SpecProbe == InitProbe /\ [][NextProbe]_vars

(***************************************************************************)
(* LoadVideoWorker.run, on its own thread.  `load_worker' holds where the  *)
(* function stands, its locals video_capture and original_clip (the state  *)
(* of the object each names, None while the name is unbound), the results  *)
(* dict (a key the dict does not have is None; the key 'error' holds       *)
(* Some(None) or Some(str)), the percentages of the progress signal, and   *)
(* the dict the finished signal carried.                                   *)
(***************************************************************************)

LoadVideoWorker ==
    [ pc            |-> "capture",
      video_capture |-> None,
      original_clip |-> None,
      results       |-> [ video_capture |-> FALSE, original_clip |-> FALSE,
                          fps |-> None, total_frames |-> None,
                          has_audio |-> None, waveform_data |-> None,
                          error |-> None ],
      str_e         |-> None,
      progress      |-> <<>>,
      finished      |-> None ]

\* the window has run open_file, which started the worker
InitLoad ==
    /\ win = open_file(begin(VideoEditorWindow, "open_file"), <<"i", "n">>)
    /\ load_worker = Some(LoadVideoWorker)
    /\ probe = None
    /\ worker = None
    /\ loading = TRUE
    /\ pending = NoWrites
    /\ consumed = NoWrites
    /\ reopened = <<>>
    /\ twin = None
    /\ writes = <<>>
    /\ twin_writes = <<>>
    /\ save_worker = None
    /\ proc = None
    /\ emitted = <<>>
    /\ queued = <<>>

loading_at(l) == load_worker /= None /\ val(load_worker).pc = l

\* str(e) of what the readers raise
LoadMessages == {<<>>, <<"e">>}

\* self.progress.emit(10, ...); video_capture = cv2.VideoCapture(self.video_path):
\* the constructor returns an object, opened or not
LoadCapture ==
    /\ loading_at("capture")
    /\ \E opened \in BOOLEAN :
         load_worker' = Some([val(load_worker) EXCEPT
             !.progress = Append(@, 10),
             !.video_capture = Some(IF opened THEN "open" ELSE "unopened"),
             !.pc = "clip"])
    /\ UNCHANGED <<playerVars, muteVars, exportVars, probe>>

\* original_clip = VideoFileClip(self.video_path, audio_buffersize=500000):
\* the reader is open when the constructor returns; when it raises, the name
\* stays unbound
LoadClip ==
    /\ loading_at("clip")
    /\ \/ load_worker' = Some([val(load_worker) EXCEPT
             !.original_clip = Some("open"), !.pc = "check"])
       \/ \E str_e \in LoadMessages :
             load_worker' = Some([val(load_worker) EXCEPT
                 !.str_e = Some(str_e), !.pc = "except"])
    /\ UNCHANGED <<playerVars, muteVars, exportVars, probe>>

\* if not video_capture.isOpened(): raise IOError(...); then the two
\* objects and the properties of the capture go into results
\* (fps: get(CAP_PROP_FPS) or 30)
LoadCheck ==
    /\ loading_at("check")
    /\ IF val(val(load_worker).video_capture) /= "open"
       THEN load_worker' = Some([val(load_worker) EXCEPT
                !.str_e = Some(<<"Cannot open video file.">>), !.pc = "except"])
       ELSE \E get_fps \in {0, 25}, total_frames \in 0..MaxFrames :
              load_worker' = Some([val(load_worker) EXCEPT
                  !.results.video_capture = TRUE,
                  !.results.original_clip = TRUE,
                  !.results.fps = Some(IF get_fps /= 0 THEN get_fps ELSE 30),
                  !.results.total_frames = Some(total_frames),
                  !.pc = "audio"])
    /\ UNCHANGED <<playerVars, muteVars, exportVars, probe>>

\* self.progress.emit(30, ...); has_audio = False; waveform_data = None;
\* if audio_clip and audio_clip.duration and audio_clip.max_volume() > 0.001:
\* has_audio = True, progress 50.  max_volume reads the audio and may raise.
LoadAudio ==
    /\ loading_at("audio")
    /\ LET begun == [val(load_worker) EXCEPT
                        !.progress = Append(@, 30),
                        !.results.has_audio = Some(FALSE)]
       IN  \/ \E audible \in BOOLEAN :
                load_worker' = Some(
                    IF audible
                    THEN [begun EXCEPT !.results.has_audio = Some(TRUE),
                                       !.progress = Append(@, 50),
                                       !.pc = "waveform"]
                    ELSE [begun EXCEPT !.progress = Append(@, 100),
                                       !.results.error = Some(None),
                                       !.pc = "finally"])
           \/ \E str_e \in LoadMessages :
                load_worker' = Some([begun EXCEPT
                    !.str_e = Some(str_e), !.pc = "except"])
    /\ UNCHANGED <<playerVars, muteVars, exportVars, probe>>

\* the loop over the samples of the waveform (subclip(...).max_volume() may
\* raise), then results['waveform_data']; progress 100; results['error'] = None
LoadWaveform ==
    /\ loading_at("waveform")
    /\ \/ load_worker' = Some([val(load_worker) EXCEPT
             !.results.waveform_data = Some("waveform"),
             !.progress = Append(@, 100),
             !.results.error = Some(None),
             !.pc = "finally"])
       \/ \E str_e \in LoadMessages :
             load_worker' = Some([val(load_worker) EXCEPT
                 !.str_e = Some(str_e), !.pc = "except"])
    /\ UNCHANGED <<playerVars, muteVars, exportVars, probe>>

\* except Exception as e: results['error'] = str(e); close the clip and
\* release the capture that are in results
LoadExcept ==
    /\ loading_at("except")
    /\ load_worker' = Some([val(load_worker) EXCEPT
           !.results.error = Some(val(load_worker).str_e),
           !.original_clip = IF val(load_worker).results.original_clip
                             THEN Some("closed") ELSE @,
           !.video_capture = IF val(load_worker).results.video_capture
                             THEN Some("released") ELSE @,
           !.pc = "finally"])
    /\ UNCHANGED <<playerVars, muteVars, exportVars, probe>>

\* finally: self.finished.emit(results)
LoadFinally ==
    /\ loading_at("finally")
    /\ load_worker' = Some([val(load_worker) EXCEPT
           !.finished = Some(val(load_worker).results), !.pc = "done"])
    /\ UNCHANGED <<playerVars, muteVars, exportVars, probe>>

NextLoad ==
    \/ LoadCapture \/ LoadClip \/ LoadCheck \/ LoadAudio \/ LoadWaveform
    \/ LoadExcept \/ LoadFinally

SpecLoad == InitLoad /\ [][NextLoad]_vars

(***************************************************************************)
(* C1.  The seek mailbox is last-write-wins: it always holds the value of  *)
(* the latest seek() not yet taken (nothing when none was made); what the  *)
(* worker takes is that latest value, whatever number of seek() calls      *)
(* preceded it, and the mailbox is empty after the take; the cursor is     *)
(* then re-opened once, for that value; a take with no seek() since the    *)
(* previous take yields nothing and re-opens nothing.                      *)
(***************************************************************************)
MailboxLastWriteWins ==
    worker /= None =>
        LET w == val(worker) IN
        /\ w.seek_request_frame = pending.last
        /\ w.pc = "seek" => w.seek_frame = consumed.last
        /\ w.pc \in {"idle", "next"} =>
             /\ reopened = IF consumed.n = 0 THEN <<>> ELSE <<val(consumed.last)>>
             /\ consumed.n > 0 =>
                  \/ w.chunk_generator = None
                  \/ /\ val(w.chunk_generator).origin = val(consumed.last)
                     /\ val(w.chunk_generator).i = 0

\* two seek() calls were coalesced: the cursor stands re-opened for the later one
CoalescedSeekTaken ==
    /\ at("idle")
    /\ consumed.n >= 2
    /\ reopened = <<val(consumed.last)>>
    /\ val(worker).chunk_generator /= None
    /\ val(worker).seek_request_frame = None

(***************************************************************************)
(* C2.  While a video is loaded the trim window satisfies                  *)
(* 0 <= start_frame <= end_frame <= total_frames - 1.                      *)
(***************************************************************************)
TrimWindowInvariant ==
    win.video_capture /= None =>
        /\ 0 <= win.start_frame
        /\ win.start_frame <= win.end_frame
        /\ win.end_frame <= win.total_frames - 1

(***************************************************************************)
(* C9.  Every step from not playing to playing, with an audio worker,      *)
(* makes exactly one seek() call, with the frame cursor at which the video *)
(* starts, and calls resume() after it; a tick that publishes a frame      *)
(* makes no seek() call.  Stated for sessions of at least one frame.       *)
(***************************************************************************)
is_seek(c) == c.op = "seek"

PlaySyncsAudioOnce ==
    [][ /\ (win.calls = <<>> /\ ~win.is_playing /\ win'.is_playing
            /\ win.audio_thread /= None /\ win.total_frames > 0)
           => /\ Len(SelectSeq(win'.calls, is_seek)) = 1
              /\ win'.calls = << [op |-> "seek", arg |-> win'.cap_pos],
                                 [op |-> "resume", arg |-> 0] >>
        /\ (win.calls = <<>> /\ win'.h_op = "next_frame" /\ win'.h_branch = "published")
           => SelectSeq(win'.calls, is_seek) = <<>>
      ]_vars

(***************************************************************************)
(* C10 as claimed.  After a tick that found the cursor past end_frame,     *)
(* playback is stopped and the cursor of the video source equals           *)
(* end_frame; any other tick publishes exactly one frame and advances the  *)
(* cursor by one.  Stated for sessions of at least one frame.              *)
(***************************************************************************)
audio_paused == (idle /\ worker /= None) => val(worker).is_paused

stopped == ~win.is_playing /\ ~win.timer_active /\ audio_paused

TickClampsCursorToEnd ==
    (win.h_op = "next_frame" /\ win.total_frames > 0) =>
        /\ win.h_branch = "past_end" => stopped /\ win.cap_pos = win.end_frame
        /\ win.h_branch \in {"published", "read_failed"} =>
             win.h_shown = <<win.cap_pos - 1>>

(***************************************************************************)
(* C10 as amended.  After a tick that found the cursor past end_frame,     *)
(* playback is stopped, the source was positioned at end_frame and one     *)
(* read was made there: when it returned a frame, frame end_frame is       *)
(* displayed and the cursor is end_frame + 1.  A tick that found the       *)
(* cursor inside the window and read a frame publishes that one frame,     *)
(* advances the cursor by one and leaves playback running; when its read   *)
(* fails it publishes nothing and stops playback.                          *)
(***************************************************************************)
TickStopsPastEnd ==
    win.h_op = "next_frame" =>
        /\ win.h_branch = "past_end" =>
             /\ stopped
             /\ \/ win.h_shown = <<win.end_frame>> /\ win.cap_pos = win.end_frame + 1
                \/ win.h_shown = <<>> /\ win.cap_pos = Max(0, Min(win.end_frame, win.total_frames))
        /\ win.h_branch = "published" =>
             /\ win.h_shown = <<win.cap_pos - 1>>
             /\ win.is_playing /\ win.timer_active
        /\ win.h_branch = "read_failed" =>
             /\ win.h_shown = <<>>
             /\ stopped

\* a tick ran past the end of the window, stopped playback and showed end_frame
TickStoppedAtEnd ==
    /\ win.h_op = "next_frame" /\ win.h_branch = "past_end"
    /\ win.h_shown = <<win.end_frame>>
    /\ idle /\ worker /= None /\ val(worker).is_paused

(***************************************************************************)
(* C8.  Two runs of the AudioThread that receive the same seek, pause,     *)
(* resume and stop calls under the same schedule and differ only in their  *)
(* set_mute calls make the same number of device writes, of the same       *)
(* sizes, and stand at the same place of the loop with the same chunk      *)
(* cursor; a write is silence exactly when that run was muted.             *)
(***************************************************************************)
MuteKeepsPacing ==
    /\ Len(writes) = Len(twin_writes)
    /\ \A i \in 1..Len(writes) : writes[i].len = twin_writes[i].len
    /\ val(worker).pc = val(twin).pc
    /\ val(worker).chunk_generator = val(twin).chunk_generator
    /\ val(worker).is_paused = val(twin).is_paused

\* mute was toggled while streaming in one run, and the other run was not muted
MuteToggledWhileStreaming ==
    /\ Len(writes) >= 2
    /\ writes[1].silent /\ ~writes[2].silent
    /\ ~twin_writes[1].silent
    /\ writes[1].len > 0

(***************************************************************************)
(* The signals of the export job in flight.                                *)
(***************************************************************************)
is_finished(ev) == ev.signal = "finished"
is_progress(ev) == ev.signal = "progress"
terminal == SelectSeq(emitted, is_finished)

\* the text the encoder wrote on stderr, as far as it was read
RECURSIVE text_of(_)
text_of(lines) == IF lines = <<>> THEN <<>> ELSE Head(lines).text \o text_of(Tail(lines))

ends_with(s, t) == Len(t) <= Len(s) /\ SubSeq(s, Len(s) - Len(t) + 1, Len(s)) = t

(***************************************************************************)
(* C3.  An export job, video or audio, emits finished exactly once: not    *)
(* before its run has reached the end, and once when it has, whether the   *)
(* encoder exited with 0 or with another code, or Popen or the read of     *)
(* stderr raised.                                                          *)
(***************************************************************************)
FinishedExactlyOnce ==
    save_worker /= None =>
        /\ Len(terminal) = (IF val(save_worker).pc = "done" THEN 1 ELSE 0)
        /\ val(save_worker).pc \in {"run", "for", "finally", "done"}

FinishedAfterReadRaised ==
    /\ saving("done")
    /\ val(save_worker).h_raised
    /\ proc /= None /\ Len(proc.stderr) >= 1
    /\ Len(terminal) = 1

(***************************************************************************)
(* C4.  When the encoder has exited with code 0 the finished signal        *)
(* carries the empty diagnostic (Success); when it has exited with another *)
(* code every finished signal of the job carries a diagnostic that is not  *)
(* empty (Failure, never Success) and that ends with the lines read from   *)
(* stderr, all of them and in the order read.                              *)
(***************************************************************************)
ExitCodeDecidesOutcome ==
    (saving("done") /\ proc /= None /\ proc.returncode /= None) =>
        \A i \in 1..Len(terminal) :
            IF val(proc.returncode) = 0
            THEN terminal[i].error_message = <<>>
            ELSE /\ terminal[i].error_message /= <<>>
                 /\ ends_with(terminal[i].error_message, text_of(proc.stderr))
                 /\ Len(terminal[i].error_message) > Len(text_of(proc.stderr))

FailedWithTwoLines ==
    /\ saving("done")
    /\ proc /= None /\ proc.returncode = Some(1)
    /\ Len(proc.stderr) >= 2
    /\ proc.stderr[1] /= proc.stderr[2]
    /\ Len(terminal) = 1

(***************************************************************************)
(* C5.  A job whose worker raised, in Popen or while reading stderr, is    *)
(* reported to the window as a failure: the handler that receives its      *)
(* finished signal takes the error branch.                                 *)
(***************************************************************************)
RaisedJobReportedAsFailure ==
    [][ (queued /= <<>> /\ queued' = Tail(queued) /\ val(save_worker).h_raised)
            => win'.h_branch = "error" ]_vars

(***************************************************************************)
(* C6.  For a job of duration D > 0 a line that carries the time stamp     *)
(* HH:MM:SS.hh makes the worker emit one progress signal, of value         *)
(* min(100, floor(100 * (3600 HH + 60 MM + SS + hh / 100) / D)); a line    *)
(* that carries no time stamp emits none; every progress value lies in     *)
(* 0..100.                                                                 *)
(***************************************************************************)
\* the time stamp in hundredths of a second
hundredths_of(t) == ((t[1] * 3600 + t[2] * 60 + t[3]) * 100) + t[4]

\* k * D <= n / 100 * 100, for the double D > 0 and the naturals k and n
\* (the percentage 100 * (n / 100) / D is at least k)
at_least(n, k, D) ==
    IF D.e <= 0
    THEN big_cmp(big_mul(D.m, k), shl(big(n), -D.e)) <= 0
    ELSE big_cmp(big_mul(shl(D.m, D.e), k), big(n)) <= 0

\* p = min(100, floor(100 * (n / 100) / D))
is_floor_percent(p, n, D) ==
    IF p >= 100
    THEN p = 100 /\ at_least(n, 100, D)
    ELSE p >= 0 /\ at_least(n, p, D) /\ ~at_least(n, p + 1, D)

ProgressIsFloorOfPercent ==
    (save_worker /= None /\ proc /= None) =>
        /\ \A n \in 1..Len(proc.stderr) :
             LET of_line(ev) == is_progress(ev) /\ ev.line = n
                 evs == SelectSeq(emitted, of_line)
                 stamp == proc.stderr[n].stamp
             IN  IF stamp = None
                 THEN evs = <<>>
                 ELSE positive(val(save_worker).duration) =>
                        /\ Len(evs) = 1
                        /\ is_floor_percent(evs[1].percent, hundredths_of(val(stamp)),
                                            val(save_worker).duration)
        /\ \A i \in 1..Len(emitted) :
             is_progress(emitted[i]) => emitted[i].percent \in 0..100

(***************************************************************************)
(* C7.  When the encoder has exited with code 0 a progress signal of value *)
(* 100 precedes the finished signal; and no signal of the job follows its  *)
(* finished signal.                                                        *)
(***************************************************************************)
HundredBeforeSuccess ==
    /\ \A i \in 1..Len(emitted) : is_finished(emitted[i]) => i = Len(emitted)
    /\ (saving("done") /\ proc /= None /\ proc.returncode = Some(0)) =>
          /\ is_finished(emitted[Len(emitted)])
          /\ emitted[Len(emitted)].error_message = <<>>
          /\ \E i \in 1..(Len(emitted) - 1) :
               is_progress(emitted[i]) /\ emitted[i].percent = 100

SuccessAfterHalfway ==
    /\ saving("done")
    /\ proc /= None /\ proc.returncode = Some(0)
    /\ Len(emitted) = 3
    /\ is_progress(emitted[1]) /\ emitted[1].percent = 50
    /\ is_progress(emitted[2]) /\ emitted[2].percent = 100
    /\ is_finished(emitted[3])

(***************************************************************************)
(* C11.  Original statement: for every frame index f in                    *)
(* [0, total_frames-1] of a loaded session, set_position(f) returns and    *)
(* displays a frame, and afterwards the frame cursor of the video source   *)
(* equals f.                                                               *)
(***************************************************************************)
\* the state stands right after the slider's set_position(f), f inside the frames
sought(f) ==
    /\ win.h_op = "set_position"
    /\ win.h_arg = Some(f)
    /\ win.video_capture /= None

SeekLeavesCursorAtFrame ==
    \A f \in 0..(win.total_frames - 1) :
        sought(f) => win.h_shown = <<f>> /\ win.cap_pos = f

(***************************************************************************)
(* C11, amended.  For every frame index f in [0, total_frames-1] of a      *)
(* loaded session, set_position(f) leaves playback paused, positions the   *)
(* source at f and reads once: when the read returns a frame, frame f and  *)
(* no other is displayed and the frame cursor equals f + 1; when the read  *)
(* fails, nothing is displayed and the frame cursor equals f.              *)
(***************************************************************************)
SeekDisplaysFrame ==
    \A f \in 0..(win.total_frames - 1) :
        sought(f) =>
            /\ ~win.is_playing /\ ~win.timer_active
            /\ \/ win.h_shown = <<f>> /\ win.cap_pos = f + 1
               \/ win.h_shown = <<>> /\ win.cap_pos = f

\* the slider sought the last frame of a two-frame session and the frame was
\* displayed
SoughtLastFrame ==
    /\ sought(1)
    /\ win.total_frames = 2
    /\ win.h_shown = <<1>>
    /\ win.cap_pos = 2

\* a SaveWorker exists: a video export was triggered and not yet completed
video_job == save_worker /= None /\ val(save_worker).class = "SaveWorker"

\* the step is the trigger of a video export
video_trigger == save_worker = None /\ save_worker' /= None
                 /\ val(save_worker').class = "SaveWorker"

(***************************************************************************)
(* C12.  Every crop rectangle the crop mapping hands to an export job has  *)
(* an even width and an even height, the rectangles clamped at the right   *)
(* or bottom edge of the source included.                                  *)
(***************************************************************************)
CropDimensionsEven ==
    (video_job /\ val(save_worker).crop_details /= None) =>
        LET c == val(val(save_worker).crop_details)
        IN  c.width % 2 = 0 /\ c.height % 2 = 0

(***************************************************************************)
(* C13.  A crop rectangle handed to an export job lies inside the source:  *)
(* 0 <= x1 <= origW-1, 0 <= y1 <= origH-1, width > 0, height > 0,          *)
(* x1 + width <= origW and y1 + height <= origH.  When the rectangle       *)
(* mapped from the display has, after clamping, a width or a height <= 0   *)
(* (worked out here in whole-number arithmetic from the scene rectangle),  *)
(* or when nothing is selected, the job has no crop rectangle; and the     *)
(* command has the -vf crop filter exactly when the job has one.           *)
(***************************************************************************)
\* one axis of the mapping: the extent left of a scene interval that starts at
\* `from' and is `extent' long, on a source of `orig' pixels shown on `disp'
clamped_extent(from, extent, orig, disp) ==
    LET origin == IF from < 0 THEN 0 ELSE (from * orig) \div disp
        even == ((extent * orig) \div disp) - (((extent * orig) \div disp) % 2)
    IN  IF even <= orig - origin THEN even ELSE orig - origin

CropInsideSource ==
    [][video_trigger =>
        LET w == val(save_worker')
            command == cmd(w)
            filtered == \E i \in 1..Len(command) : command[i] = <<"-", "v", "f">>
        IN  /\ w.crop_details /= None =>
                  LET c == val(w.crop_details)
                  IN  /\ 0 <= c.x1 /\ c.x1 <= win.original_width - 1
                      /\ 0 <= c.y1 /\ c.y1 <= win.original_height - 1
                      /\ c.width > 0 /\ c.height > 0
                      /\ c.x1 + c.width <= win.original_width
                      /\ c.y1 + c.height <= win.original_height
            /\ filtered <=> w.crop_details /= None
            /\ win.crop_area = None => w.crop_details = None
            /\ (win.crop_area /= None /\ win.pixmap /= None) =>
                  LET r == val(win.crop_area)
                      d == val(win.pixmap)
                  IN  (\/ clamped_extent(r.x, r.width, win.original_width, d.width) <= 0
                       \/ clamped_extent(r.y, r.height, win.original_height, d.height) <= 0)
                      => w.crop_details = None
    ]_vars

\* a job was handed a rectangle that starts inside the source and was clamped
\* at its right edge
ClampedCropExported ==
    /\ video_job
    /\ val(save_worker).crop_details /= None
    /\ val(val(save_worker).crop_details).x1 > 0
    /\ val(val(save_worker).crop_details).x1 + val(val(save_worker).crop_details).width
         = win.original_width

(***************************************************************************)
(* C16.  The video export command is exactly: -y, -ss start, -to end,      *)
(* -i input, then -vf crop=W:H:X:Y if and only if the job has a crop       *)
(* rectangle, then -c:v and the probed codec, then -an if the mute flag is *)
(* set and -c:a aac otherwise, then the output path; start, end, input,    *)
(* codec and mute flag are those of the session at the moment the export   *)
(* was triggered, and the command of a job never changes.                  *)
(***************************************************************************)
VideoCommandExact ==
    [][/\ video_trigger =>
            LET w == val(save_worker')
                c == val(w.crop_details)
            IN  cmd(w) =
                    << <<"-", "y">>,
                       <<"-", "s", "s">>,
                       str_float(truediv(float(win.start_frame), float(val(win.fps)))),
                       <<"-", "t", "o">>,
                       str_float(truediv(float(win.end_frame), float(val(win.fps)))),
                       <<"-", "i">>, val(win.video_path) >>
                    \o (IF w.crop_details /= None
                        THEN << <<"-", "v", "f">>,
                                <<"c", "r", "o", "p", "=">> \o str_int(c.width) \o <<":">>
                                    \o str_int(c.height) \o <<":">> \o str_int(c.x1)
                                    \o <<":">> \o str_int(c.y1) >>
                        ELSE <<>>)
                    \o << <<"-", "c", ":", "v">>, codec_str(win.ffmpeg_codec) >>
                    \o (IF win.is_muted THEN << <<"-", "a", "n">> >>
                        ELSE << <<"-", "c", ":", "a">>, <<"a", "a", "c">> >>)
                    \o << w.save_path >>
       /\ (video_job /\ save_worker' /= None) =>
            cmd(val(save_worker')) = cmd(val(save_worker))
    ]_vars

\* the export of a cropped video from a muted session has run
MutedCropExported ==
    /\ video_job
    /\ val(save_worker).crop_details /= None
    /\ val(save_worker).is_muted
    /\ val(save_worker).pc = "done"

(***************************************************************************)
(* C17.  The time range handed to the encoder covers the whole inclusive   *)
(* trim window: (end_time - start_time) * fps = end_frame - start_frame    *)
(* + 1, and so a window with start_frame = end_frame exports a job of      *)
(* positive duration.                                                      *)
(***************************************************************************)
ExportCoversTrimWindow ==
    save_worker /= None =>
        /\ float_mul(val(save_worker).duration, float(val(win.fps)))
             = float(win.end_frame - win.start_frame + 1)
        /\ positive(val(save_worker).duration)

\* the probe has returned
probed == probing("returned") \/ probing("done")

\* the capability query number n exited with code 0 and without the marker
qualified(n) ==
    LET q == val(probe).queried[n].q
    IN  ~q.raised /\ q.returncode = 0 /\ ~q.unknown

(***************************************************************************)
(* C14.  The probe queries the candidates in the order h264_nvenc,         *)
(* h264_amf, h264_qsv and returns the first whose query exits with code 0  *)
(* and without the "Unknown encoder" marker; when none qualifies it        *)
(* returns libx264.  No candidate is queried after one that qualifies.     *)
(***************************************************************************)
FirstQualifyingEncoderWins ==
    probed =>
        LET queried == val(probe).queried
            codec == val(val(probe).result)[2]
            order == <<"h264_nvenc", "h264_amf", "h264_qsv">>
        IN  /\ \A n \in 1..Len(queried) : queried[n].codec = order[n]
            /\ \A n \in 1..(Len(queried) - 1) : ~qualified(n)
            /\ IF queried /= <<>> /\ qualified(Len(queried))
               THEN codec = order[Len(queried)]
               ELSE Len(queried) = 3 /\ codec = "libx264"
            /\ probing("done") => win.ffmpeg_codec = codec

\* the second candidate was chosen after the first answered with the marker
SecondEncoderChosen ==
    /\ probing("done")
    /\ Len(val(probe).queried) = 2
    /\ val(probe).queried[1].q = [raised |-> FALSE, returncode |-> 0, unknown |-> TRUE]
    /\ win.ffmpeg_codec = "h264_amf"

(***************************************************************************)
(* C15.  A probe failure never surfaces to the caller: the probe never     *)
(* ends by raising, be the encoder binary missing or a query failing; a    *)
(* query that raises is followed by the query of the next candidate; and   *)
(* when every query has failed the probe returns libx264.                  *)
(***************************************************************************)
ProbeFailureStaysInside ==
    /\ ~probing("raised")
    /\ probed =>
          LET queried == val(probe).queried
          IN  /\ \A n \in 1..Len(queried) :
                    queried[n].q.raised => (n = 3 \/ Len(queried) > n)
              /\ (\A n \in 1..Len(queried) : queried[n].q.raised)
                    => val(val(probe).result)[2] = "libx264"

\* C19: an AudioThread that holds the audio device and is not running - its
\* run has ended, or it was never started - has closed its stream.
DeviceReleasedUnlessRunning ==
    worker /= None /\ val(worker).pc \in {"done", "unstarted"}
        => val(worker).stream = "closed"

\* the load worker reported an exception to the slot that ran last
load_failed(s) ==
    s.h_op = "on_video_load_complete" /\ s.h_arg /= None /\ val(s.h_arg) /= None

\* the window is as unload_video leaves it, and only open_file is enabled
unloaded(s) ==
    /\ s.video_path = None /\ s.video_capture = None /\ s.original_clip = None
    /\ s.audio_thread = None /\ ~s.has_audio
    /\ s.start_frame = 0 /\ s.end_frame = -1 /\ s.total_frames = 0
    /\ ~s.is_playing /\ ~s.timer_active
    /\ s.ui = [loaded |-> FALSE, processing |-> FALSE, audio |-> FALSE]

\* C20: once the slot has received the results of a failed load, the error
\* message was shown and the window is unloaded.
FailedLoadUnloads ==
    load_failed(win) => win.h_branch = "error" /\ ~win.h_raised /\ unloaded(win)

\* the slot that is running has called join() and waits for it to return
joining == \E i \in DOMAIN win.calls : win.calls[i].op = "join"

\* C18: once stop() was called on a started AudioThread the stop flag stays
\* set, the thread writes at most once more to the device, and it reaches the
\* end of run with the stream closed; a join() that was called returns.
StopIsTerminal ==
    /\ [][worker /= None /\ val(worker).stop_event /\ worker' /= None
             => val(worker').stop_event]_vars
    /\ [](worker /= None => val(worker).h_late <= 1)
    /\ (worker /= None /\ val(worker).stop_event)
          ~> (worker /= None /\ val(worker).pc = "done"
                /\ val(worker).stream = "closed")
    /\ joining ~> (worker = None /\ win.calls = <<>>)

\* C18 witness: join() waits for a thread that was stopped while it was about
\* to write, wrote once more, and has ended.
StoppedAfterLateWrite ==
    /\ joining
    /\ worker /= None /\ val(worker).stop_event /\ val(worker).h_late = 1
    /\ val(worker).pc = "done" /\ val(worker).stream = "closed"

\* C21: a load that ends without an audio track in use (the file has none, or
\* the AudioThread could not be created or started) leaves the session loaded
\* with no audio thread, the whole clip as trim window, the mute flag set and
\* the playback and export buttons enabled; play, pause, seek and unload then
\* run to their end, and unload leaves the window unloaded.
AudioFailureDegrades ==
    /\ (win.h_op = "on_video_load_complete" /\ win.h_branch = "loaded"
            /\ ~win.has_audio) =>
          /\ win.video_capture /= None /\ win.audio_thread = None
          /\ win.start_frame = 0 /\ win.end_frame = win.total_frames - 1
          /\ win.is_muted
          /\ win.ui = [loaded |-> TRUE, processing |-> FALSE, audio |-> FALSE]
    /\ win.h_op \in {"toggle_play_pause", "set_position", "unload_video"}
          => ~win.h_raised
    /\ win.h_op = "unload_video" => unloaded(win)

\* the step is the slot `op' of a button, run by the coordination thread
ran(op) == win'.h_op = op /\ win.calls = <<>> /\ worker' = worker /\ win' /= win

\* C25: set_start_point changes end_frame only when the new start_frame is
\* greater than end_frame, and then to total_frames - 1; set_end_point changes
\* start_frame only when the new end_frame is less than start_frame, and then
\* to 0.
TrimSnapsOnlyWhenPassed ==
    [][ /\ ran("set_start_point") =>
              /\ win'.end_frame /= win.end_frame => win'.start_frame > win.end_frame
              /\ win'.start_frame > win.end_frame
                    => win'.end_frame = win.total_frames - 1
        /\ ran("set_end_point") =>
              /\ win'.start_frame /= win.start_frame => win'.end_frame < win.start_frame
              /\ win'.end_frame < win.start_frame => win'.start_frame = 0
    ]_vars

\* playback is on, seek(f) and resume() have been made, and the thread is
\* about to pull from its cursor and write
streaming == win.is_playing /\ win.calls = <<>> /\ at("next")

\* C26: while playback is on, a chunk is written only when the seek request of
\* the start of playback has been taken, so that the cursor is the one opened
\* for it.
NoChunkFromEarlierCursor ==
    [][ (streaming /\ worker' /= None /\ val(worker').pc = "while"
           /\ val(worker').chunk_generator /= None /\ ~val(worker').is_paused)
          => val(worker).seek_request_frame = None
    ]_vars

\* C27: the thread does not set its pause flag, for the end or an error of the
\* cursor it had before, once playback was started at a frame f after which
\* audio remains and while the seek request for f is still to be taken.
ResumeNotOverridden ==
    [][ (streaming /\ val(worker).seek_request_frame /= None
           /\ ~subclip_raises(val(worker).audio_clip, val(val(worker).seek_request_frame))
           /\ subclip_start(val(worker).audio_clip, val(val(worker).seek_request_frame))
                 < val(worker).audio_clip
           /\ worker' /= None /\ val(worker').pc = "while")
          => ~val(worker').is_paused
    ]_vars

\* C28: when no call of a slot is still to be made, an AudioThread that exists
\* has the mute flag of the window.
MuteFlagsAgree ==
    (worker /= None /\ win.calls = <<>>) => val(worker).is_muted = win.is_muted

\* C29: the clip is closed only when no AudioThread exists, and an AudioThread
\* is created only when none exists.
ClipClosedAfterJoin ==
    /\ [][(win.calls /= <<>> /\ Head(win.calls).op = "close"
              /\ win'.calls = Tail(win.calls)) => worker = None]_vars
    /\ [][(worker' /= None /\ val(worker').pc \in {"while", "unstarted"}
              /\ win'.h_op = "on_video_load_complete" /\ win.calls = <<>>
              /\ loading /\ ~loading') => worker = None]_vars

\* C29 witness: another file is opened while an AudioThread exists; the thread
\* has ended, join() is about to return and the clip is closed after it.
JoinedBeforeClose ==
    /\ win.h_op = "open_file"
    /\ Len(win.calls) = 2
    /\ win.calls[1].op = "join" /\ win.calls[2].op = "close"
    /\ worker /= None /\ val(worker).pc = "done"

\* what an export must leave alone: source path, video handle, trim window and
\* mute flag
session_of(s) ==
    <<s.video_path, s.video_capture, s.start_frame, s.end_frame, s.is_muted>>

\* the step starts an export worker
export_trigger == save_worker = None /\ save_worker' /= None

\* the step leaves the export worker in flight
export_flying == save_worker /= None /\ save_worker' /= None

\* the step is the completion slot receiving a non-empty error message
export_failed ==
    save_worker /= None /\ save_worker' = None /\ Head(queued).error_message /= <<>>

\* C22 as stated: from the trigger of an export to the slot that receives its
\* failure the session stays as it was - the crop rectangle of the window, mapped
\* as the trigger mapped it, is still the one the video job was given - and the
\* slot shows the error and enables the buttons of a loaded session again.
ExportFailureKeepsCrop ==
    [][ /\ (export_trigger \/ export_flying \/ export_failed)
              => session_of(win') = session_of(win)
        /\ (video_job /\ export_failed)
              => crop_details(win') = val(save_worker).crop_details
        /\ export_failed =>
              /\ win'.h_branch = "error" /\ win'.video_capture /= None
              /\ win'.ui = [loaded |-> TRUE, processing |-> FALSE,
                            audio |-> win.has_audio]
    ]_vars

\* C22: from the trigger of an export to the slot that receives its failure
\* the source path, the video handle, the trim window and the mute flag stay as
\* they were, and the crop rectangle changes only by the release of a drag for
\* which cropping was started before the trigger; the slot shows the error and
\* enables the buttons of a loaded session again.
ExportFailureRestores ==
    [][ /\ (export_trigger \/ export_flying \/ export_failed) =>
              /\ session_of(win') = session_of(win)
              /\ win'.crop_area /= win.crop_area => win.is_cropping
              /\ win'.is_cropping => win.is_cropping
        /\ export_failed =>
              /\ win'.h_branch = "error" /\ win'.video_capture /= None
              /\ win'.ui = [loaded |-> TRUE, processing |-> FALSE,
                            audio |-> win.has_audio]
    ]_vars

\* C22 witness: the failure of a video export was handled in a session that has
\* a crop rectangle.
FailureHandledWithCrop ==
    /\ win.h_op = "on_video_save_complete" /\ win.h_branch = "error"
    /\ win.crop_area /= None
    /\ save_worker = None /\ ~win.ui.processing /\ win.ui.loaded

\* while an export worker exists every button is disabled, the worker is not
\* replaced, and only the completion slot enables the buttons again
buttons_held ==
    /\ [](save_worker /= None =>
             win.ui.processing /\ ~enabled_loaded /\ ~enabled_audio)
    /\ [][export_flying =>
             /\ val(save_worker').class = val(save_worker).class
             /\ val(save_worker').save_path = val(save_worker).save_path
             /\ val(save_worker').pc = "run" => val(save_worker).pc = "run"]_vars
    /\ [][(save_worker /= None /\ ~win'.ui.processing) =>
             /\ save_worker' = None
             /\ win'.h_op \in {"on_video_save_complete", "on_audio_save_complete"}]_vars

\* C23 as stated: while an export worker exists no command acts, setting the
\* crop rectangle included.
ExportHoldsEveryCommand ==
    /\ buttons_held
    /\ [][export_flying =>
             /\ win'.crop_area = win.crop_area
             /\ win'.crop_rect_item = win.crop_rect_item]_vars

\* C23: while an export worker exists every button is disabled, the worker is
\* not replaced and only the completion slot enables the buttons again; the
\* crop rectangle changes only by a drag for which cropping was started before
\* the trigger.
OneExportInFlight ==
    /\ buttons_held
    /\ [][export_flying =>
             /\ (win'.crop_area /= win.crop_area
                    \/ win'.crop_rect_item /= win.crop_rect_item) => win.is_cropping
             /\ win'.is_cropping => win.is_cropping]_vars

\* C23 witness: a drag is under way while the encoder of an export runs.
DragDuringExport ==
    /\ saving("for") /\ win.ui.processing
    /\ win.is_cropping /\ win.crop_rect_item /= None

\* C24: when the chunk cursor is exhausted the thread sets its pause flag, drops
\* the cursor and writes nothing; a device write is made only from a turn that
\* found the pause flag clear and a cursor; a cursor appears only where the turn
\* consumes a seek request, a seek request only by seek(), and the pause flag
\* is cleared only by resume(): so after the exhaustion nothing is written
\* until a seek has been consumed and resume() was called, and a resume()
\* alone leaves the thread idle.
ExhaustionPausesUntilSeekAndResume ==
    [][ LET w == val(worker)
            n == val(worker')
        IN  /\ (w.pc = "next" /\ n.pc /= "next" /\ exhausted(w))
                  => n.is_paused /\ n.chunk_generator = None /\ writes' = writes
            /\ writes' /= writes
                  => w.pc = "next" /\ w.chunk_generator /= None /\ ~exhausted(w)
            /\ (w.pc /= "next" /\ n.pc = "next")
                  => w.pc = "idle" /\ ~w.is_paused /\ w.chunk_generator /= None
            /\ (w.chunk_generator = None /\ n.chunk_generator /= None)
                  => w.pc = "seek" /\ w.seek_frame /= None
            /\ (w.seek_frame = None /\ n.seek_frame /= None)
                  => w.pc = "lock" /\ w.seek_request_frame /= None
            /\ (w.seek_request_frame = None /\ n.seek_request_frame /= None)
                  => n = seek(w, val(n.seek_request_frame))
            /\ (w.is_paused /\ ~n.is_paused) => n = resume(w)
            /\ (w.chunk_generator = None /\ w.seek_request_frame = None
                  /\ w.seek_frame = None /\ n = resume(w))
                  => n.chunk_generator = None /\ writes' = writes
      ]_vars

RECURSIVE sum_len(_)
sum_len(ws) == IF ws = <<>> THEN 0 ELSE Head(ws).len + sum_len(Tail(ws))

\* the thread is about to pull from a cursor that has yielded all its chunks,
\* after it has written what was left of the clip
CursorRanOut ==
    /\ at("next")
    /\ ~val(worker).is_paused
    /\ exhausted(val(worker))
    /\ val(val(worker).chunk_generator).totalsize > 0
    /\ sum_len(writes) >= val(val(worker).chunk_generator).totalsize

\* C30: when the finished signal of the load worker carries an error, the
\* capture and the clip reader the worker had opened are released.
LoadFailureReleasesAll ==
    (loading_at("done") /\ val(val(load_worker).finished).error /= Some(None))
        => /\ val(load_worker).video_capture /= Some("open")
           /\ val(load_worker).original_clip /= Some("open")

(***************************************************************************)
(* Playback of one loaded session: the user plays, pauses and moves the    *)
(* end marker, the playback timer ticks, and the AudioThread runs.         *)
(* The timer keeps firing while it is active, the calls of a slot are      *)
(* made, and the thread keeps taking steps; the user may give commands at  *)
(* any time, or none.                                                      *)
(***************************************************************************)

\* the window and the thread as on_video_load_complete leaves them
InitPlay ==
    /\ \E results \in LoadResults, audio_init \in AudioInits, ok \in BOOLEAN :
         /\ results.error = None
         /\ win = on_video_load_complete(
                      [begin(open_file(VideoEditorWindow, <<"i", "n">>),
                             "on_video_load_complete")
                           EXCEPT !.h_arg = Some(results.error)],
                      results, audio_init, ok)
         /\ worker = CASE win.audio_thread = Some("thread") ->
                            Some(AudioThread(audio_samples(results)))
                       [] win.audio_thread = Some("unstarted") ->
                            Some([AudioThread(audio_samples(results))
                                      EXCEPT !.pc = "unstarted"])
                       [] OTHER -> None
    /\ loading = FALSE
    /\ pending = NoWrites
    /\ consumed = NoWrites
    /\ reopened = <<>>
    /\ twin = None
    /\ writes = <<>>
    /\ twin_writes = <<>>
    /\ save_worker = None
    /\ proc = None
    /\ emitted = <<>>
    /\ queued = <<>>
    /\ probe = None
    /\ load_worker = None

NextPlay ==
    \/ TogglePlayPause \/ SetEndPoint
    \/ NextFrame \/ AudioCall
    \/ RunWhile \/ RunLock \/ RunSeek \/ RunIdle \/ RunNext

SpecPlay ==
    /\ InitPlay /\ [][NextPlay]_vars
    /\ WF_vars(NextFrame) /\ WF_vars(AudioCall) /\ WF_vars(Run)

\* playback has ended: not playing, timer stopped, every call of the slot
\* made, the audio thread (when there is one) paused
playback_over ==
    /\ ~win.is_playing
    /\ ~win.timer_active
    /\ win.calls = <<>>
    /\ worker /= None => val(worker).is_paused

\* C31: a tick that publishes a frame moves the frame cursor on by one; a tick
\* ends playback only past the end of the trim window or on a failed read, and
\* stops the timer; and, whether or not the user gives further commands,
\* playing leads to not playing with the timer stopped and the audio thread
\* paused.
PlaybackEndsByItself ==
    /\ [][(ran("next_frame") /\ win'.h_branch = "published")
             => /\ win'.cap_pos = win.cap_pos + 1
                /\ win'.h_shown = <<win.cap_pos>>
                /\ win.cap_pos <= win.end_frame
                /\ win'.is_playing]_vars
    /\ [][(ran("next_frame") /\ win.is_playing /\ ~win'.is_playing)
             => /\ win'.h_branch \in {"past_end", "read_failed"}
                /\ win'.h_branch = "past_end" <=> win.cap_pos > win.end_frame
                /\ ~win'.timer_active]_vars
    /\ win.is_playing ~> playback_over

\* C31 witness: playback of a session with audio ran past the end of the trim
\* window; the tick stopped it and the thread is paused
PlayedToTheEnd ==
    /\ win.h_op = "next_frame" /\ win.h_branch = "past_end"
    /\ win.end_frame < win.total_frames - 1
    /\ worker /= None
    /\ playback_over

====
